---- MODULE Spec2Model ----
(***************************************************************************)
(* A model of the vibe_zstd binding layer: the StreamWriter / StreamReader *)
(* adapters (streaming.c), the one-shot compress / decompress of a session *)
(* (cctx.c, dctx.c) and the bounds-checked parameter dispatch.             *)
(*                                                                         *)
(* The codec engine is an external collaborator.  It is modelled by a      *)
(* small frame format with the structure of the real one (magic number,    *)
(* frame header with optional dictionary id and content size, blocks with  *)
(* a last-block flag, skippable frames with a 4-byte little-endian length) *)
(* and by streaming state machines that follow the engine's buffered       *)
(* streaming loops stage by stage.                                         *)
(***************************************************************************)
EXTENDS Integers, Sequences, FiniteSets, TLC

(***************************************************************************)
(* Bounds of the model.                                                    *)
(***************************************************************************)
\* longest byte sequence handed to a writer or to compress
MaxData == 3
\* payload bytes are drawn from 0..MaxByteVal
MaxByteVal == 1
\* largest explicit size passed to read and to write
MaxReq == 3
\* scaled engine block size (ZSTD_BLOCKSIZE_MAX)
BlockSizeMax == 2

\* a Ruby value that is nil, a String or a raised exception
Qnil == [kind |-> "nil", str |-> << >>]

RString(s) == [kind |-> "str", str |-> s]

Raise(e) == [kind |-> e, str |-> << >>]

\* nil where an Integer argument or option is expected
NilInt == -1

Min(a, b) == IF a < b THEN a ELSE b

Take(s, n) == SubSeq(s, 1, Min(n, Len(s)))

Drop(s, n) == SubSeq(s, n + 1, Len(s))

DataByte == 0..MaxByteVal

RECURSIVE SeqsUpTo(_, _)
SeqsUpTo(S, n) ==
  IF n = 0 THEN {<< >>}
  ELSE LET shorter == SeqsUpTo(S, n - 1)
       IN shorter \cup {Append(s, x) : s \in {t \in shorter : Len(t) = n - 1}, x \in S}

(***************************************************************************)
(* The engine's frame format.                                              *)
(***************************************************************************)
\* 0xFD2FB528, little-endian
ZSTD_MAGICNUMBER == <<40, 181, 47, 253>>

\* 0x184D2A50 .. 0x184D2A5F, little-endian: the first byte carries the variant
ZSTD_MAGIC_SKIPPABLE_START == <<80, 42, 77, 24>>

ZSTD_FRAMEIDSIZE == 4

ZSTD_SKIPPABLEHEADERSIZE == 8

\* magic number and frame header descriptor
ZSTD_FRAMEHEADERSIZE_MIN == 5

ZSTD_blockHeaderSize == 1

ZSTD_CONTENTSIZE_UNKNOWN == -1

ZSTD_CONTENTSIZE_ERROR == -2

\* an engine error code (ZSTD_isError)
ZSTD_ERROR == -1

ZSTD_isError(code) == code = ZSTD_ERROR

\* frame header descriptor bits
FHD_DICTID == 1

FHD_FCS == 32

MEM_readLE32(s, i) == s[i] + 256 * s[i + 1] + 65536 * s[i + 2] + 16777216 * s[i + 3]

MEM_writeLE32(n) ==
  << n % 256, (n \div 256) % 256, (n \div 65536) % 256, (n \div 16777216) % 256 >>

IsZstdMagic(s) == Len(s) >= ZSTD_FRAMEIDSIZE /\ SubSeq(s, 1, 4) = ZSTD_MAGICNUMBER

ZSTD_isSkippableFrame(s) ==
  /\ Len(s) >= ZSTD_FRAMEIDSIZE
  /\ s[1] \in 80..95
  /\ SubSeq(s, 2, 4) = SubSeq(ZSTD_MAGIC_SKIPPABLE_START, 2, 4)

\* the bytes a dictionary contributes to the coding of a payload byte
EncByte(x, dictID) == (x + 1 + dictID) % 256

DecByte(y, dictID) == (y + 255 - dictID) % 256

EncBytes(s, dictID) == [i \in 1..Len(s) |-> EncByte(s[i], dictID)]

DecBytes(s, dictID) == [i \in 1..Len(s) |-> DecByte(s[i], dictID)]

BlockHeader(size, last) == 2 * size + (IF last THEN 1 ELSE 0)

BlockLast(h) == h % 2 = 1

BlockSize(h) == h \div 2

EncodeBlock(s, last, dictID) == <<BlockHeader(Len(s), last)>> \o EncBytes(s, dictID)

FrameHeader(dictID, contentSize) ==
  ZSTD_MAGICNUMBER
    \o << (IF dictID # 0 THEN FHD_DICTID ELSE 0)
          + (IF contentSize # ZSTD_CONTENTSIZE_UNKNOWN THEN FHD_FCS ELSE 0) >>
    \o (IF dictID # 0 THEN <<dictID>> ELSE << >>)
    \o (IF contentSize # ZSTD_CONTENTSIZE_UNKNOWN THEN <<contentSize>> ELSE << >>)

HasDictID(fhd) == fhd % 2 = 1

HasFCS(fhd) == (fhd \div FHD_FCS) % 2 = 1

FrameHeaderSize(fhd) ==
  ZSTD_FRAMEHEADERSIZE_MIN + (IF HasDictID(fhd) THEN 1 ELSE 0) + (IF HasFCS(fhd) THEN 1 ELSE 0)

\* a prefix of a frame's first four bytes that can still become a frame
MagicPrefixOK(s) ==
  LET n == Min(Len(s), ZSTD_FRAMEIDSIZE)
  IN \/ \A i \in 1..n : s[i] = ZSTD_MAGICNUMBER[i]
     \/ /\ n >= 1 => s[1] \in 80..95
        /\ \A i \in 2..n : s[i] = ZSTD_MAGIC_SKIPPABLE_START[i]

\* ZSTD_getFrameHeader: 0 when the header is complete, the number of bytes
\* the header needs when it is not, ZSTD_ERROR when this is no frame
ZSTD_getFrameHeader(s) ==
  IF Len(s) < ZSTD_FRAMEHEADERSIZE_MIN
  THEN IF MagicPrefixOK(s) THEN ZSTD_FRAMEHEADERSIZE_MIN ELSE ZSTD_ERROR
  ELSE IF ZSTD_isSkippableFrame(s)
       THEN IF Len(s) < ZSTD_SKIPPABLEHEADERSIZE THEN ZSTD_SKIPPABLEHEADERSIZE ELSE 0
       ELSE IF ~IsZstdMagic(s) THEN ZSTD_ERROR
            ELSE IF Len(s) < FrameHeaderSize(s[5]) THEN FrameHeaderSize(s[5]) ELSE 0

FrameDictID(s) == IF HasDictID(s[5]) THEN s[6] ELSE 0

FrameContentSize(s) ==
  IF HasFCS(s[5]) THEN s[FrameHeaderSize(s[5])] ELSE ZSTD_CONTENTSIZE_UNKNOWN

ZSTD_getFrameContentSize(s) ==
  IF ZSTD_getFrameHeader(s) # 0 THEN ZSTD_CONTENTSIZE_ERROR
  ELSE IF ZSTD_isSkippableFrame(s) THEN 0
  ELSE FrameContentSize(s)

\* the length of the blocks of a frame, from its first block header to the
\* end of its last block; ZSTD_ERROR when the input ends before that
RECURSIVE BlocksSize(_)
BlocksSize(s) ==
  IF Len(s) < ZSTD_blockHeaderSize THEN ZSTD_ERROR
  ELSE LET h == s[1]
           n == ZSTD_blockHeaderSize + BlockSize(h)
       IN IF BlockSize(h) > BlockSizeMax \/ Len(s) < n THEN ZSTD_ERROR
          ELSE IF BlockLast(h) THEN n
          ELSE LET rest == BlocksSize(Drop(s, n))
               IN IF ZSTD_isError(rest) THEN ZSTD_ERROR ELSE n + rest

ZSTD_findFrameCompressedSize(s) ==
  IF ZSTD_isSkippableFrame(s)
  THEN IF Len(s) < ZSTD_SKIPPABLEHEADERSIZE THEN ZSTD_ERROR
       ELSE LET size == ZSTD_SKIPPABLEHEADERSIZE + MEM_readLE32(s, 5)
            IN IF size > Len(s) THEN ZSTD_ERROR ELSE size
  ELSE IF ZSTD_getFrameHeader(s) # 0 THEN ZSTD_ERROR
  ELSE LET hs == FrameHeaderSize(s[5])
           bs == BlocksSize(Drop(s, hs))
       IN IF ZSTD_isError(bs) THEN ZSTD_ERROR ELSE hs + bs

ZSTD_writeSkippableFrame(content, magicVariant) ==
  << ZSTD_MAGIC_SKIPPABLE_START[1] + magicVariant >>
    \o SubSeq(ZSTD_MAGIC_SKIPPABLE_START, 2, 4)
    \o MEM_writeLE32(Len(content))
    \o content

(***************************************************************************)
(* One-shot engine calls.                                                  *)
(***************************************************************************)
\* worst-case size of a frame for n input bytes: the longest frame header,
\* one block header per block and one payload byte per input byte
ZSTD_compressBound(n) ==
  ZSTD_FRAMEHEADERSIZE_MIN + 2 + n + (n \div BlockSizeMax) + ZSTD_blockHeaderSize

\* the blocks of a frame holding s; the last one carries the last-block flag
RECURSIVE EncodeBlocks(_, _)
EncodeBlocks(s, dictID) ==
  IF Len(s) <= BlockSizeMax THEN EncodeBlock(s, TRUE, dictID)
  ELSE EncodeBlock(Take(s, BlockSizeMax), FALSE, dictID)
         \o EncodeBlocks(Drop(s, BlockSizeMax), dictID)

\* a one-shot frame: its header always declares the content size
CompressFrame(src, dictID) == FrameHeader(dictID, Len(src)) \o EncodeBlocks(src, dictID)

\* ZSTD_compressCCtx / ZSTD_compress_usingCDict into a buffer of dstCapacity
\* bytes: the size written (or an error) and the bytes written
ZSTD_compress(dstCapacity, src, dictID) ==
  LET Written(frame) ==
        IF Len(frame) > dstCapacity
        THEN [result |-> ZSTD_ERROR, out |-> << >>]
        ELSE [result |-> Len(frame), out |-> frame]
  IN Written(CompressFrame(src, dictID))

\* the blocks at the head of s decoded with the dictionary the frame names
RECURSIVE DecodeBlocks(_, _)
DecodeBlocks(s, dictID) ==
  IF Len(s) < ZSTD_blockHeaderSize THEN [err |-> TRUE, out |-> << >>, used |-> 0]
  ELSE LET h == s[1]
           n == ZSTD_blockHeaderSize + BlockSize(h)
       IN IF BlockSize(h) > BlockSizeMax \/ Len(s) < n
          THEN [err |-> TRUE, out |-> << >>, used |-> 0]
          ELSE LET here == DecBytes(SubSeq(s, 2, n), dictID)
               IN IF BlockLast(h) THEN [err |-> FALSE, out |-> here, used |-> n]
                  ELSE LET rest == DecodeBlocks(Drop(s, n), dictID)
                       IN [err |-> rest.err, out |-> here \o rest.out, used |-> n + rest.used]

\* ZSTD_decompressMultiFrame: every frame of src, skippable frames skipped
RECURSIVE DecodeFrames(_, _)
DecodeFrames(s, dictID) ==
  IF Len(s) < ZSTD_FRAMEHEADERSIZE_MIN THEN [err |-> Len(s) # 0, out |-> << >>]
  ELSE IF ZSTD_isSkippableFrame(s)
       THEN LET size == ZSTD_findFrameCompressedSize(s)
            IN IF ZSTD_isError(size) THEN [err |-> TRUE, out |-> << >>]
               ELSE DecodeFrames(Drop(s, size), dictID)
       ELSE IF ZSTD_getFrameHeader(s) # 0 THEN [err |-> TRUE, out |-> << >>]
       ELSE IF FrameDictID(s) # 0 /\ FrameDictID(s) # dictID THEN [err |-> TRUE, out |-> << >>]
       ELSE LET hs == FrameHeaderSize(s[5])
                b == DecodeBlocks(Drop(s, hs), FrameDictID(s))
            IN IF b.err \/ (HasFCS(s[5]) /\ FrameContentSize(s) # Len(b.out))
               THEN [err |-> TRUE, out |-> << >>]
               ELSE LET rest == DecodeFrames(Drop(s, hs + b.used), dictID)
                    IN [err |-> rest.err, out |-> b.out \o rest.out]

\* ZSTD_decompressDCtx / ZSTD_decompress_usingDDict into a buffer of
\* dstCapacity bytes: the size written (or an error) and the bytes written
ZSTD_decompress(dstCapacity, src, dictID) ==
  LET Written(d) ==
        IF d.err \/ Len(d.out) > dstCapacity
        THEN [result |-> ZSTD_ERROR, out |-> << >>]
        ELSE [result |-> Len(d.out), out |-> d.out]
  IN Written(DecodeFrames(src, dictID))

(***************************************************************************)
(* The engine's streaming decompression (ZSTD_decompressStream), stage by  *)
(* stage.  A session z holds                                               *)
(*   stage    init, loadHeader, read, load, flush or error                 *)
(*   hbuf     the frame header bytes loaded so far                         *)
(*   kind     what the next needed input is: the start or the rest of a    *)
(*            header (hdr, fhdr, skiphdr), a block header (bh), a block    *)
(*            content (bc), the body of a skippable frame (skip), or       *)
(*            nothing because the frame is decoded (end)                   *)
(*   need     how many bytes of it are needed (the engine's "expected")    *)
(*   last     whether the block being read is the last one                 *)
(*   inb      input loaded for that piece and not yet decoded              *)
(*   outb     decoded bytes not yet flushed to the caller                  *)
(*   hostage  whether the frame's last input byte is held back until outb  *)
(*            is flushed                                                   *)
(*   ddict    the dictionary the session references (0: none)              *)
(***************************************************************************)
\* scaled ZSTD_DStreamInSize(): the size the reader asks its source for
ZSTD_DStreamInSize == 3

\* the logarithm of the largest window a new session accepts
ZSTD_WINDOWLOG_LIMIT_DEFAULT == 27

\* scaled ZSTD_DStreamOutSize(): one block
ZSTD_DStreamOutSize == 2

\* scaled ZSTD_CStreamOutSize(): the writer's scratch buffer
ZSTD_CStreamOutSize == 3

ZSTD_createDStream(dictID) ==
  [stage |-> "init", hbuf |-> << >>, kind |-> "hdr", need |-> ZSTD_FRAMEHEADERSIZE_MIN,
   last |-> FALSE, inb |-> << >>, outb |-> << >>, hostage |-> FALSE, ddict |-> dictID,
   windowLogMax |-> ZSTD_WINDOWLOG_LIMIT_DEFAULT]

\* ZSTD_decompressContinue on one complete piece of input
ZSTD_decompressContinue(z, piece) ==
  CASE z.kind = "bh" ->
         LET h == piece[1]
         IN IF BlockSize(h) > BlockSizeMax THEN [z EXCEPT !.stage = "error"]
            ELSE IF BlockSize(h) = 0
                 THEN IF BlockLast(h)
                      THEN [z EXCEPT !.stage = "read", !.kind = "end", !.need = 0]
                      ELSE [z EXCEPT !.stage = "read", !.need = ZSTD_blockHeaderSize]
                 ELSE [z EXCEPT !.stage = "read", !.kind = "bc", !.need = BlockSize(h),
                                !.last = BlockLast(h)]
    [] z.kind = "bc" ->
         IF z.last
         THEN [z EXCEPT !.stage = "flush", !.outb = DecBytes(piece, FrameDictID(z.hbuf)),
                        !.kind = "end", !.need = 0]
         ELSE [z EXCEPT !.stage = "flush", !.outb = DecBytes(piece, FrameDictID(z.hbuf)),
                        !.kind = "bh", !.need = ZSTD_blockHeaderSize]
    [] z.kind = "hdr" ->
         \* ZSTDds_getFrameHeaderSize: the first bytes of a header
         IF ZSTD_isSkippableFrame(piece)
         THEN [z EXCEPT !.stage = "read", !.hbuf = piece, !.kind = "skiphdr",
                        !.need = ZSTD_SKIPPABLEHEADERSIZE - Len(piece)]
         ELSE [z EXCEPT !.stage = "read", !.hbuf = piece, !.kind = "fhdr",
                        !.need = FrameHeaderSize(piece[5]) - Len(piece)]
    [] z.kind = "fhdr" ->
         \* ZSTDds_decodeFrameHeader: the rest of a frame header
         LET hb == z.hbuf \o piece
         IN IF \/ ZSTD_getFrameHeader(hb) # 0
               \/ FrameDictID(hb) # 0 /\ FrameDictID(hb) # z.ddict
            THEN [z EXCEPT !.stage = "error"]
            ELSE [z EXCEPT !.stage = "read", !.hbuf = hb, !.kind = "bh",
                           !.need = ZSTD_blockHeaderSize]
    [] z.kind = "skiphdr" ->
         \* ZSTDds_decodeSkippableHeader
         LET hb == z.hbuf \o piece
         IN [z EXCEPT !.stage = "read", !.hbuf = hb, !.kind = "skip",
                      !.need = MEM_readLE32(hb, 5)]
    [] OTHER ->
         \* ZSTDds_skipFrame, or no input expected
         [z EXCEPT !.stage = "flush", !.kind = "end", !.need = 0]

\* the loop "while (someMoreWork)" of ZSTD_decompressStream over the input
\* window inp, of which ip bytes are consumed, with out produced so far into
\* an output buffer of cap bytes
RECURSIVE ZDS_loop(_, _, _, _, _)
ZDS_loop(z, inp, ip, out, cap) ==
  LET avail == Len(inp) - ip
      stop == [z |-> z, ip |-> ip, out |-> out, err |-> FALSE, direct |-> FALSE]
  IN CASE z.stage = "loadHeader" ->
            LET hSize == ZSTD_getFrameHeader(z.hbuf)
            IN IF ZSTD_isError(hSize) THEN [stop EXCEPT !.err = TRUE]
               ELSE IF hSize # 0
               THEN LET toLoad == hSize - Len(z.hbuf)
                    IN IF toLoad > avail
                       THEN LET hb == z.hbuf \o SubSeq(inp, ip + 1, Len(inp))
                            IN [z |-> [z EXCEPT !.hbuf = hb], ip |-> Len(inp), out |-> out,
                                err |-> ZSTD_isError(ZSTD_getFrameHeader(hb)),
                                direct |-> TRUE]
                       ELSE ZDS_loop([z EXCEPT !.hbuf = @ \o SubSeq(inp, ip + 1, ip + toLoad)],
                                     inp, ip + toLoad, out, cap)
               ELSE IF ZSTD_isSkippableFrame(z.hbuf)
               THEN ZDS_loop([z EXCEPT !.stage = "read", !.kind = "skip",
                                       !.need = MEM_readLE32(z.hbuf, 5)],
                             inp, ip, out, cap)
               ELSE IF FrameDictID(z.hbuf) # 0 /\ FrameDictID(z.hbuf) # z.ddict
               THEN [stop EXCEPT !.err = TRUE]
               ELSE ZDS_loop([z EXCEPT !.stage = "read", !.kind = "bh",
                                       !.need = ZSTD_blockHeaderSize],
                             inp, ip, out, cap)
       [] z.stage = "read" ->
            IF z.need = 0 THEN [stop EXCEPT !.z.stage = "init"]
            ELSE IF avail >= z.need
            THEN ZDS_loop(ZSTD_decompressContinue(z, SubSeq(inp, ip + 1, ip + z.need)),
                          inp, ip + z.need, out, cap)
            ELSE IF avail = 0 THEN stop
            ELSE ZDS_loop([z EXCEPT !.stage = "load"], inp, ip, out, cap)
       [] z.stage = "load" ->
            LET toLoad == z.need - Len(z.inb)
                loaded == Min(toLoad, avail)
                inb == z.inb \o SubSeq(inp, ip + 1, ip + loaded)
            IN IF loaded < toLoad
               THEN [stop EXCEPT !.z.inb = inb, !.ip = ip + loaded]
               ELSE ZDS_loop(ZSTD_decompressContinue([z EXCEPT !.inb = << >>], inb),
                             inp, ip + loaded, out, cap)
       [] z.stage = "flush" ->
            LET n == Min(cap - Len(out), Len(z.outb))
                flushed == out \o Take(z.outb, n)
            IN IF n = Len(z.outb)
               THEN ZDS_loop([z EXCEPT !.outb = << >>, !.stage = "read"], inp, ip, flushed, cap)
               ELSE [stop EXCEPT !.z.outb = Drop(z.outb, n), !.out = flushed]
       [] OTHER -> [stop EXCEPT !.err = TRUE]

\* the transparent reset of stage zdss_init
ZDS_init(z) ==
  IF z.stage = "init"
  THEN [z EXCEPT !.stage = "loadHeader", !.hbuf = << >>, !.inb = << >>, !.outb = << >>,
                 !.hostage = FALSE]
  ELSE z

\* ZSTD_decompressStream without the byte held back while decoded output is
\* still to be flushed: the frame is reported complete at once
ZSTD_decompressStream_noHostage(z, inp, pos, cap) ==
  LET Return(r) ==
        IF r.err THEN [z |-> r.z, pos |-> r.ip, out |-> r.out, ret |-> ZSTD_ERROR]
        ELSE IF r.direct \/ r.z.need # 0
        THEN [z |-> r.z, pos |-> r.ip, out |-> r.out, ret |-> 1]
        ELSE [z |-> r.z, pos |-> r.ip, out |-> r.out, ret |-> 0]
  IN Return(ZDS_loop(ZDS_init(z), inp, pos, << >>, cap))

\* ZSTD_decompressStream: the session afterwards, the new input position,
\* the bytes written to the output buffer, and the return value: 0 when a
\* frame is completely decoded and fully flushed, ZSTD_ERROR, or 1 for any
\* other positive hint
ZSTD_decompressStream(z, inp, pos, cap) ==
  LET Return(r) ==
        IF r.err THEN [z |-> r.z, pos |-> r.ip, out |-> r.out, ret |-> ZSTD_ERROR]
        ELSE IF r.direct \/ r.z.need # 0
        THEN [z |-> r.z, pos |-> r.ip, out |-> r.out, ret |-> 1]
        ELSE IF r.z.outb = << >>
             THEN IF r.z.hostage
                  THEN IF r.ip >= Len(inp)
                       THEN [z |-> [r.z EXCEPT !.stage = "read"], pos |-> r.ip,
                             out |-> r.out, ret |-> 1]
                       ELSE [z |-> r.z, pos |-> r.ip + 1, out |-> r.out, ret |-> 0]
                  ELSE [z |-> r.z, pos |-> r.ip, out |-> r.out, ret |-> 0]
             ELSE IF ~r.z.hostage
                  THEN [z |-> [r.z EXCEPT !.hostage = TRUE], pos |-> r.ip - 1,
                        out |-> r.out, ret |-> 1]
                  ELSE [z |-> r.z, pos |-> r.ip, out |-> r.out, ret |-> 1]
  IN Return(ZDS_loop(ZDS_init(z), inp, pos, << >>, cap))

(***************************************************************************)
(* The engine's streaming compression (ZSTD_compressStream2) in buffered   *)
(* mode.  A session zc holds                                               *)
(*   stage       init, load or flush                                       *)
(*   started     whether the frame header has been produced                *)
(*   inb         input loaded for the current block                        *)
(*   outb        compressed bytes not yet flushed to the caller            *)
(*   frameEnded  whether outb ends with the frame's last block             *)
(*   cdict       the dictionary the session references (0: none)           *)
(***************************************************************************)
ZSTD_createCStream(dictID) ==
  [stage |-> "init", started |-> FALSE, inb |-> << >>, outb |-> << >>,
   frameEnded |-> FALSE, cdict |-> dictID]

\* the loop of ZSTD_compressStream_generic; mode is continue, flush or end
RECURSIVE ZCS_loop(_, _, _, _, _, _)
ZCS_loop(zc, inp, ip, out, cap, mode) ==
  LET avail == Len(inp) - ip
      stop == [zc |-> zc, ip |-> ip, out |-> out]
  IN IF zc.stage = "load"
     THEN LET loaded == Min(BlockSizeMax - Len(zc.inb), avail)
              inb == zc.inb \o SubSeq(inp, ip + 1, ip + loaded)
              lastBlock == mode = "end" /\ ip + loaded = Len(inp)
              cBlock == (IF zc.started THEN << >>
                         ELSE FrameHeader(zc.cdict, ZSTD_CONTENTSIZE_UNKNOWN))
                          \o EncodeBlock(inb, lastBlock, zc.cdict)
          IN IF \/ mode = "continue" /\ Len(inb) < BlockSizeMax
                \/ mode = "flush" /\ inb = << >>
             THEN [stop EXCEPT !.zc.inb = inb, !.ip = ip + loaded]
             ELSE ZCS_loop([zc EXCEPT !.stage = "flush", !.started = TRUE, !.inb = << >>,
                                      !.outb = cBlock, !.frameEnded = lastBlock],
                           inp, ip + loaded, out, cap, mode)
     ELSE LET n == Min(cap - Len(out), Len(zc.outb))
              flushed == out \o Take(zc.outb, n)
          IN IF n < Len(zc.outb)
             THEN [stop EXCEPT !.zc.outb = Drop(zc.outb, n), !.out = flushed]
             ELSE IF zc.frameEnded
             THEN [stop EXCEPT !.zc = ZSTD_createCStream(zc.cdict), !.out = flushed]
             ELSE ZCS_loop([zc EXCEPT !.stage = "load", !.outb = << >>],
                           inp, ip, flushed, cap, mode)

\* ZSTD_compressStream2: the session afterwards, the new input position, the
\* bytes written to the output buffer and the return value, the number of
\* bytes still to flush
ZSTD_compressStream2(zc, inp, pos, cap, mode) ==
  LET Return(r) == [zc |-> r.zc, pos |-> r.ip, out |-> r.out, ret |-> Len(r.zc.outb)]
  IN Return(ZCS_loop(IF zc.stage = "init" THEN [zc EXCEPT !.stage = "load"] ELSE zc,
                     inp, pos, << >>, cap, mode))

(***************************************************************************)
(* Ruby Strings used as buffers.  A String is its length and the bytes of  *)
(* its buffer; its content is the first len bytes of the buffer.  Bytes    *)
(* that were never written are indeterminate: junk stands for their value. *)
(***************************************************************************)
JunkBytes == {0, 255}

\* the bytes a String holds inside its object, without a buffer of its own
\* (scaled)
RSTRING_EMBED_LEN_MAX == 1

\* whether the bytes of a String are held inside its object
STR_EMBED_P(s) == Len(s.buf) <= RSTRING_EMBED_LEN_MAX

\* an empty String with room for capa bytes
rb_str_buf_new(capa, junk) ==
  [len |-> 0,
   buf |-> [i \in 1..(IF capa <= RSTRING_EMBED_LEN_MAX THEN RSTRING_EMBED_LEN_MAX
                      ELSE capa) |-> junk]]

rb_str_new(len, junk) == [len |-> len, buf |-> [i \in 1..len |-> junk]]

rb_str_set_len(s, len) == [s EXCEPT !.len = len]

\* rb_str_resize keeps the content of the String, its first s.len bytes.
\* An embedded String that still fits gets its new length and nothing else.
\* Between the object and a buffer, either way, the old content is copied
\* and nothing else.  A buffer resized as a buffer (realloc) keeps every
\* byte it holds, content or not
rb_str_resize(s, len, junk) ==
  LET slen == Min(s.len, len)
      copied == [i \in 1..(IF len <= RSTRING_EMBED_LEN_MAX THEN RSTRING_EMBED_LEN_MAX
                           ELSE len) |-> IF i <= slen THEN s.buf[i] ELSE junk]
  IN IF STR_EMBED_P(s)
     THEN IF len <= RSTRING_EMBED_LEN_MAX THEN [s EXCEPT !.len = len]
          ELSE [len |-> len, buf |-> copied]
     ELSE IF len <= RSTRING_EMBED_LEN_MAX THEN [len |-> len, buf |-> copied]
          ELSE [len |-> len,
                buf |-> [i \in 1..len |-> IF i <= Len(s.buf) THEN s.buf[i] ELSE junk]]

\* memcpy(RSTRING_PTR(s) + at, bytes, n)
memcpy(s, at, bytes) ==
  [s EXCEPT !.buf = [i \in 1..Len(s.buf) |->
                       IF i > at /\ i <= at + Len(bytes) THEN bytes[i - at] ELSE s.buf[i]]]

\* the content of a String
StringValue(s) == SubSeq(s.buf, 1, s.len)

(***************************************************************************)
(* StreamWriter (streaming.c).                                             *)
(***************************************************************************)
\* bytes of all pieces of a list of pieces, in order
RECURSIVE Flatten(_)
Flatten(pieces) == IF pieces = << >> THEN << >> ELSE Head(pieces) \o Flatten(Tail(pieces))

\* the pieces handed to the sink when the test "if (output.pos > 0)" is left
\* out: every pass of a writer loop writes to the sink
Forward_always(writes, out) == Append(writes, out)

\* "if (output.pos > 0) { rb_str_set_len(outBuffer, output.pos);
\* rb_funcall(cstream->io, write, outBuffer) }": the pieces handed to the sink
\* after one pass of a writer loop.  The scratch String is made by
\* rb_str_buf_new(outBufferSize) and holds the engine's output out
Forward(writes, out) ==
  IF Len(out) > 0
  THEN Append(writes,
              StringValue(rb_str_set_len(memcpy(rb_str_buf_new(ZSTD_CStreamOutSize, 0), 0, out),
                                         Len(out))))
  ELSE writes

\* "VALUE outBuffer = rb_str_buf_new(outBufferSize)" is made once per call
\* of write, flush and finish, and every pass of the loop hands the engine
\* RSTRING_PTR(outBuffer) and the sink outBuffer itself: the String after the
\* engine calls of one call, whose outputs were outs
RECURSIVE writer_outBuffer(_, _)
writer_outBuffer(outBuffer, outs) ==
  IF outs = << >> THEN outBuffer
  ELSE writer_outBuffer(IF Len(Head(outs)) > 0
                        THEN rb_str_set_len(memcpy(outBuffer, 0, Head(outs)), Len(Head(outs)))
                        ELSE outBuffer,
                        Tail(outs))

\* what the objects hold that the sink was given in one call, once the call
\* has returned: each of them is the call's outBuffer
writer_kept(writes, outs) ==
  [i \in 1..Len(writes) |->
     StringValue(writer_outBuffer(rb_str_buf_new(ZSTD_CStreamOutSize, 0), outs))]

\* vibe_zstd_writer_write: "while (input.pos < input.size)"; writes are the
\* pieces handed to the sink and outs the output of every engine call so far
RECURSIVE vibe_zstd_writer_write(_, _, _, _, _)
vibe_zstd_writer_write(zc, data, pos, writes, outs) ==
  LET Compressed(r) ==
        vibe_zstd_writer_write(r.zc, data, r.pos, Forward(writes, r.out), Append(outs, r.out))
  IN IF pos >= Len(data) THEN [zc |-> zc, writes |-> writes, outs |-> outs]
     ELSE Compressed(ZSTD_compressStream2(zc, data, pos, ZSTD_CStreamOutSize, "continue"))

\* a flush of one engine call, whatever the engine says is still to flush
vibe_zstd_writer_flush_once(zc, writes, outs) ==
  LET Compressed(r) ==
        [zc |-> r.zc, writes |-> Forward(writes, r.out), outs |-> Append(outs, r.out)]
  IN Compressed(ZSTD_compressStream2(zc, << >>, 0, ZSTD_CStreamOutSize, "flush"))

\* vibe_zstd_writer_flush: "do ... while (remaining > 0)" with ZSTD_e_flush
RECURSIVE vibe_zstd_writer_flush(_, _, _)
vibe_zstd_writer_flush(zc, writes, outs) ==
  LET Compressed(r) ==
        IF r.ret > 0
        THEN vibe_zstd_writer_flush(r.zc, Forward(writes, r.out), Append(outs, r.out))
        ELSE [zc |-> r.zc, writes |-> Forward(writes, r.out), outs |-> Append(outs, r.out)]
  IN Compressed(ZSTD_compressStream2(zc, << >>, 0, ZSTD_CStreamOutSize, "flush"))

\* vibe_zstd_writer_finish: "do ... while (remaining > 0)" with ZSTD_e_end
RECURSIVE vibe_zstd_writer_finish(_, _, _)
vibe_zstd_writer_finish(zc, writes, outs) ==
  LET Compressed(r) ==
        IF r.ret > 0
        THEN vibe_zstd_writer_finish(r.zc, Forward(writes, r.out), Append(outs, r.out))
        ELSE [zc |-> r.zc, writes |-> Forward(writes, r.out), outs |-> Append(outs, r.out)]
  IN Compressed(ZSTD_compressStream2(zc, << >>, 0, ZSTD_CStreamOutSize, "end"))

(***************************************************************************)
(* StreamReader (streaming.c).  A source is the bytes it holds, how many   *)
(* of them it has handed out, and the most it hands out per read.          *)
(***************************************************************************)
\* io.read(n): nil at the end of the source
IO_read(src, n) ==
  IF src.rpos >= Len(src.data) THEN Qnil
  ELSE RString(SubSeq(src.data, src.rpos + 1,
                      Min(Len(src.data), src.rpos + Min(n, src.chunk))))

\* what a call of read hands back: the reader and the source afterwards, the
\* value returned, and what the call did: the number of engine calls and of
\* source reads, whether the engine signalled the end of a frame, whether the
\* source signalled its end, the bytes the engine produced, the size the
\* call asked for, the bytes the engine consumed and, at each read of the
\* source, the window (input.pos and input.size) and the number of bytes the
\* engine had consumed in this call
reader_result(d, src, ret, t) ==
  [d |-> d, src |-> src, ret |-> ret, calls |-> t.calls, pulls |-> t.pulls,
   ended |-> t.ended, src_eof |-> t.src_eof, produced |-> t.total,
   requested |-> t.requested, consumed |-> t.consumed, pulled_at |-> t.pulled_at]

\* the locals of vibe_zstd_reader_read before its loop; result is the String
\* of rb_str_buf_new(requested_size), of which no byte is read before the
\* engine has written it
reader_read_begin(requested_size) ==
  [total |-> << >>, made_progress |-> FALSE, calls |-> 0, pulls |-> 0, ended |-> FALSE,
   src_eof |-> FALSE, requested |-> requested_size,
   consumed |-> << >>, pulled_at |-> << >>,
   result |-> rb_str_buf_new(requested_size, 0)]

\* the tail of vibe_zstd_reader_read with rb_str_set_len left out
reader_read_return_noSetLen(d, src, t) ==
  IF Len(t.total) = 0
  THEN reader_result([d EXCEPT !.eof = TRUE], src, Qnil, t)
  ELSE reader_result(d, src, RString(StringValue(t.result)), t)

\* the tail of vibe_zstd_reader_read returning nil without setting eof
reader_read_return_noEof(d, src, t) ==
  IF Len(t.total) = 0
  THEN reader_result(d, src, Qnil, t)
  ELSE reader_result(d, src,
                     RString(StringValue(rb_str_set_len(t.result, Len(t.total)))), t)

\* the tail of vibe_zstd_reader_read, after its loop
reader_read_return(d, src, t) ==
  IF Len(t.total) = 0
  THEN reader_result([d EXCEPT !.eof = TRUE], src, Qnil, t)
  ELSE reader_result(d, src,
                     RString(StringValue(rb_str_set_len(t.result, Len(t.total)))), t)

\* the end of the source taken as the end of the stream whatever the call
\* has produced
reader_source_eof_returnsNil(d, src, t) ==
  reader_result([d EXCEPT !.eof = TRUE], src, Qnil, t)

\* "if (NIL_P(chunk))": the source has signalled its end
reader_source_eof(d, src, t) ==
  IF Len(t.total) = 0 /\ ~t.made_progress
  THEN reader_result([d EXCEPT !.eof = TRUE], src, Qnil, t)
  ELSE reader_read_return([d EXCEPT !.eof = TRUE], src, t)

\* a window refilled whatever is left of it
reader_refill_always(d) == TRUE

\* "Refill input buffer when all compressed data consumed"
reader_refill(d) == d.pos >= Len(d.input)

\* the loop "while (total_read < requested_size)" of vibe_zstd_reader_read;
\* t holds the locals: total (the bytes the engine has written to result),
\* made_progress, and what reader_result reports
RECURSIVE reader_read_loop(_, _, _, _)
reader_read_loop(d, src, requested_size, t) ==
  LET \* after ZSTD_decompressStream returned r for the window d1 of source src1
      Decompressed(d1, src1, t1, r) ==
        LET d2 == [d1 EXCEPT !.dstream = r.z, !.pos = r.pos]
            t2 == [t1 EXCEPT !.result = memcpy(@, Len(t1.total), r.out),
                             !.total = @ \o r.out,
                             !.made_progress = @ \/ Len(r.out) > 0,
                             !.calls = @ + 1,
                             !.consumed = @ \o SubSeq(d1.input, d1.pos + 1, r.pos),
                             !.ended = @ \/ r.ret = 0]
        IN IF ZSTD_isError(r.ret)
           THEN reader_result(d2, src1, Raise("RuntimeError"), t2)
           ELSE IF Len(t2.total) >= requested_size
           THEN reader_read_return(d2, src1, t2)
           ELSE IF r.ret = 0
           THEN reader_read_return([d2 EXCEPT !.eof = TRUE], src1, t2)
           ELSE reader_read_loop(d2, src1, requested_size, t2)
      \* with the window d1 to decompress from
      Filled(d1, src1, t1) ==
        IF Len(d1.input) = 0
        THEN reader_read_return([d1 EXCEPT !.eof = TRUE], src1, t1)
        ELSE Decompressed(d1, src1, t1,
                          ZSTD_decompressStream(d1.dstream, d1.input, d1.pos,
                                                requested_size - Len(t1.total)))
      \* after the source returned chunk for an exhausted window
      Pulled(chunk, t1) ==
        IF chunk = Qnil
        THEN reader_source_eof(d, src, [t1 EXCEPT !.src_eof = TRUE])
        ELSE Filled([d EXCEPT !.input = chunk.str, !.pos = 0],
                    [src EXCEPT !.rpos = @ + Len(chunk.str)], t1)
  IN IF Len(t.total) >= requested_size THEN reader_read_return(d, src, t)
     ELSE IF reader_refill(d)
     THEN Pulled(IO_read(src, ZSTD_DStreamInSize),
                 [t EXCEPT !.pulls = @ + 1,
                           !.pulled_at = Append(@, [pos |-> d.pos, size |-> Len(d.input),
                                                       fed |-> Len(t.consumed)])])
     ELSE Filled(d, src, t)

\* the size asked for when the reader's initial_chunk_size is not looked at
reader_requested_size_engineOnly(d, size_arg) ==
  IF size_arg # NilInt THEN size_arg ELSE ZSTD_DStreamOutSize

\* the size a call of read asks for: "default_chunk_size" and "requested_size"
reader_requested_size(d, size_arg) ==
  IF size_arg # NilInt THEN size_arg
  ELSE IF d.initial_chunk_size > 0 THEN d.initial_chunk_size
  ELSE ZSTD_DStreamOutSize

\* vibe_zstd_reader_read without its test of eof on entry
vibe_zstd_reader_read_noEofTest(d, src, size_arg) ==
  reader_read_loop(d, src, reader_requested_size(d, size_arg),
                   reader_read_begin(reader_requested_size(d, size_arg)))

\* vibe_zstd_reader_read(size_arg)
vibe_zstd_reader_read(d, src, size_arg) ==
  IF d.eof THEN reader_result(d, src, Qnil, reader_read_begin(NilInt))
  ELSE reader_read_loop(d, src, reader_requested_size(d, size_arg),
                        reader_read_begin(reader_requested_size(d, size_arg)))

\* vibe_zstd_reader_eof
vibe_zstd_reader_eof(d) == d.eof

(***************************************************************************)
(* Session parameters (cctx.c, dctx.c).  A Ruby value given to a setter is *)
(* an Integer, true, false, nil or a String; an Integer is an int, or a    *)
(* long too large for an int.                                              *)
(***************************************************************************)
INT_MAX == 2147483647

INT2NUM(n) == [kind |-> "int", int |-> n]

\* the Integer INT_MAX + 1
LongValue == [kind |-> "long", int |-> 1]

\* the Integer n + 1
Succ(n) == IF n = INT_MAX THEN LongValue ELSE INT2NUM(n + 1)

Qtrue == [kind |-> "true", int |-> 0]

Qfalse == [kind |-> "false", int |-> 0]

\* what a setter returns when it does not raise
Self == [kind |-> "self", str |-> << >>]

FIXNUM_P(value) == value.kind \in {"int", "long"}

RTEST(value) == value.kind \notin {"false", "nil"}

\* NUM2INT: the int, or the exception it raises
NUM2INT(value) ==
  CASE value.kind = "int" -> [raises |-> "none", val |-> value.int]
    [] value.kind = "long" -> [raises |-> "RangeError", val |-> 0]
    [] OTHER -> [raises |-> "TypeError", val |-> 0]

\* cctx_param_table: the engine parameter and the name of each entry
cctx_param_table ==
  << [param |-> "ZSTD_c_compressionLevel", name |-> "compression_level"],
     [param |-> "ZSTD_c_windowLog", name |-> "window_log"],
     [param |-> "ZSTD_c_hashLog", name |-> "hash_log"],
     [param |-> "ZSTD_c_chainLog", name |-> "chain_log"],
     [param |-> "ZSTD_c_searchLog", name |-> "search_log"],
     [param |-> "ZSTD_c_minMatch", name |-> "min_match"],
     [param |-> "ZSTD_c_targetLength", name |-> "target_length"],
     [param |-> "ZSTD_c_strategy", name |-> "strategy"],
     [param |-> "ZSTD_c_targetCBlockSize", name |-> "target_cblock_size"],
     [param |-> "ZSTD_c_enableLongDistanceMatching", name |-> "enable_long_distance_matching"],
     [param |-> "ZSTD_c_ldmHashLog", name |-> "ldm_hash_log"],
     [param |-> "ZSTD_c_ldmMinMatch", name |-> "ldm_min_match"],
     [param |-> "ZSTD_c_ldmBucketSizeLog", name |-> "ldm_bucket_size_log"],
     [param |-> "ZSTD_c_ldmHashRateLog", name |-> "ldm_hash_rate_log"],
     [param |-> "ZSTD_c_contentSizeFlag", name |-> "content_size_flag"],
     [param |-> "ZSTD_c_checksumFlag", name |-> "checksum_flag"],
     [param |-> "ZSTD_c_dictIDFlag", name |-> "dict_id_flag"],
     [param |-> "ZSTD_c_nbWorkers", name |-> "workers"],
     [param |-> "ZSTD_c_jobSize", name |-> "job_size"],
     [param |-> "ZSTD_c_overlapLog", name |-> "overlap_log"],
     [param |-> "ZSTD_c_rsyncable", name |-> "rsyncable"],
     [param |-> "ZSTD_c_format", name |-> "format"],
     [param |-> "ZSTD_c_forceMaxWindow", name |-> "force_max_window"],
     [param |-> "ZSTD_c_forceAttachDict", name |-> "force_attach_dict"],
     [param |-> "ZSTD_c_literalCompressionMode", name |-> "literal_compression_mode"],
     [param |-> "ZSTD_c_srcSizeHint", name |-> "src_size_hint"],
     [param |-> "ZSTD_c_enableDedicatedDictSearch", name |-> "enable_dedicated_dict_search"],
     [param |-> "ZSTD_c_stableInBuffer", name |-> "stable_in_buffer"],
     [param |-> "ZSTD_c_stableOutBuffer", name |-> "stable_out_buffer"],
     [param |-> "ZSTD_c_blockDelimiters", name |-> "block_delimiters"],
     [param |-> "ZSTD_c_validateSequences", name |-> "validate_sequences"],
     [param |-> "ZSTD_c_useRowMatchFinder", name |-> "use_row_match_finder"],
     [param |-> "ZSTD_c_deterministicRefPrefix", name |-> "deterministic_ref_prefix"],
     [param |-> "ZSTD_c_prefetchCDictTables", name |-> "prefetch_cdict_tables"],
     [param |-> "ZSTD_c_enableSeqProducerFallback", name |-> "enable_seq_producer_fallback"],
     [param |-> "ZSTD_c_maxBlockSize", name |-> "max_block_size"],
     [param |-> "ZSTD_c_searchForExternalRepcodes", name |-> "search_for_external_repcodes"] >>

\* the names whose accessors DEFINE_CCTX_PARAM_BOOL_ACCESSORS defines; the
\* accessors of the other names come from DEFINE_CCTX_PARAM_ACCESSORS
CCTX_PARAM_BOOL_ACCESSORS ==
  { "enable_long_distance_matching", "content_size_flag", "checksum_flag", "dict_id_flag",
    "rsyncable", "force_max_window", "enable_dedicated_dict_search", "stable_in_buffer",
    "stable_out_buffer", "block_delimiters", "validate_sequences",
    "deterministic_ref_prefix", "enable_seq_producer_fallback" }

\* dctx_param_table
dctx_param_table == << [param |-> "ZSTD_d_windowLogMax", name |-> "window_log_max"] >>

\* rb_intern: equal IDs for equal names and for no others, which is how
\* two strings compare
rb_intern(name) == name

\* the index of the first entry of a table with the symbol, or 0
RECURSIVE lookup_param(_, _, _)
lookup_param(table, symbol_id, i) ==
  IF i > Len(table) THEN 0
  ELSE IF rb_intern(table[i].name) = symbol_id THEN i
  ELSE lookup_param(table, symbol_id, i + 1)

\* a lookup that knows the aliases of the accessors as well
lookup_cctx_param_aliases(symbol_id) ==
  lookup_param(cctx_param_table,
               CASE symbol_id = "level" -> "compression_level"
                 [] symbol_id = "checksum" -> "checksum_flag"
                 [] OTHER -> symbol_id,
               1)

\* lookup_cctx_param: the index of the entry found, or 0
lookup_cctx_param(symbol_id) == lookup_param(cctx_param_table, symbol_id, 1)

\* lookup_dctx_param: the index of the entry found, or 0
lookup_dctx_param(symbol_id) == lookup_param(dctx_param_table, symbol_id, 1)

\* ZSTD_cParam_getBounds of a 64-bit build, with ZSTD_MULTITHREAD or not
ZSTD_cParam_getBounds(param, multithread) ==
  CASE param = "ZSTD_c_compressionLevel" -> [lowerBound |-> -131072, upperBound |-> 22]
    [] param = "ZSTD_c_windowLog" -> [lowerBound |-> 10, upperBound |-> 31]
    [] param = "ZSTD_c_hashLog" -> [lowerBound |-> 6, upperBound |-> 30]
    [] param = "ZSTD_c_chainLog" -> [lowerBound |-> 6, upperBound |-> 30]
    [] param = "ZSTD_c_searchLog" -> [lowerBound |-> 1, upperBound |-> 30]
    [] param = "ZSTD_c_minMatch" -> [lowerBound |-> 3, upperBound |-> 7]
    [] param = "ZSTD_c_targetLength" -> [lowerBound |-> 0, upperBound |-> 131072]
    [] param = "ZSTD_c_strategy" -> [lowerBound |-> 1, upperBound |-> 9]
    [] param = "ZSTD_c_targetCBlockSize" -> [lowerBound |-> 1340, upperBound |-> 131072]
    [] param = "ZSTD_c_enableLongDistanceMatching" -> [lowerBound |-> 0, upperBound |-> 2]
    [] param = "ZSTD_c_ldmHashLog" -> [lowerBound |-> 6, upperBound |-> 30]
    [] param = "ZSTD_c_ldmMinMatch" -> [lowerBound |-> 4, upperBound |-> 4096]
    [] param = "ZSTD_c_ldmBucketSizeLog" -> [lowerBound |-> 1, upperBound |-> 8]
    [] param = "ZSTD_c_ldmHashRateLog" -> [lowerBound |-> 0, upperBound |-> 25]
    [] param = "ZSTD_c_nbWorkers" ->
         [lowerBound |-> 0, upperBound |-> IF multithread THEN 256 ELSE 0]
    [] param = "ZSTD_c_jobSize" ->
         [lowerBound |-> 0, upperBound |-> IF multithread THEN 1073741824 ELSE 0]
    [] param = "ZSTD_c_overlapLog" ->
         [lowerBound |-> 0, upperBound |-> IF multithread THEN 9 ELSE 0]
    [] param = "ZSTD_c_forceAttachDict" -> [lowerBound |-> 0, upperBound |-> 3]
    [] param \in {"ZSTD_c_literalCompressionMode", "ZSTD_c_useRowMatchFinder",
                  "ZSTD_c_prefetchCDictTables", "ZSTD_c_searchForExternalRepcodes"} ->
         [lowerBound |-> 0, upperBound |-> 2]
    [] param = "ZSTD_c_srcSizeHint" -> [lowerBound |-> 0, upperBound |-> INT_MAX]
    [] param = "ZSTD_c_maxBlockSize" -> [lowerBound |-> 1024, upperBound |-> 131072]
    [] OTHER -> [lowerBound |-> 0, upperBound |-> 1]

\* ZSTD_dParam_getBounds of a 64-bit build
ZSTD_dParam_getBounds(param) == [lowerBound |-> 10, upperBound |-> 31]

ZSTD_CLEVEL_DEFAULT == 3

ZSTD_defaultCLevel == ZSTD_CLEVEL_DEFAULT

\* the parameters of a new compression session
ZSTD_CCtxParams_init ==
  [i \in 1..Len(cctx_param_table) |->
     CASE cctx_param_table[i].param = "ZSTD_c_compressionLevel" -> ZSTD_CLEVEL_DEFAULT
       [] cctx_param_table[i].param \in {"ZSTD_c_contentSizeFlag", "ZSTD_c_dictIDFlag"} -> 1
       [] OTHER -> 0]

\* ZSTD_CCtx_setParameter on the parameter of entry i: the engine checks the
\* bounds itself, the level apart, which it clamps, and stores the value;
\* level 0 stands for the default level.  Parameters and an error code
ZSTD_CCtx_setParameter(params, i, value, multithread) ==
  LET param == cctx_param_table[i].param
      bounds == ZSTD_cParam_getBounds(param, multithread)
      clamped == IF value < bounds.lowerBound THEN bounds.lowerBound
                 ELSE IF value > bounds.upperBound THEN bounds.upperBound ELSE value
  IN IF param = "ZSTD_c_compressionLevel"
     THEN [params |-> [params EXCEPT ![i] = IF clamped = 0 THEN ZSTD_CLEVEL_DEFAULT
                                            ELSE clamped],
           result |-> 0]
     ELSE IF value < bounds.lowerBound \/ value > bounds.upperBound
     THEN [params |-> params, result |-> ZSTD_ERROR]
     ELSE [params |-> [params EXCEPT ![i] = value], result |-> 0]

ZSTD_CCtx_getParameter(params, i) == params[i]

\* ZSTD_DCtx_setParameter(ZSTD_d_windowLogMax): the session keeps the window
\* size 2^value, held here as its logarithm; 0 stands for the default
ZSTD_DCtx_setParameter(z, value) ==
  LET bounds == ZSTD_dParam_getBounds("ZSTD_d_windowLogMax")
      v == IF value = 0 THEN ZSTD_WINDOWLOG_LIMIT_DEFAULT ELSE value
  IN IF v < bounds.lowerBound \/ v > bounds.upperBound
     THEN [z |-> z, result |-> ZSTD_ERROR]
     ELSE [z |-> [z EXCEPT !.windowLogMax = v], result |-> 0]

\* ZSTD_DCtx_getParameter(ZSTD_d_windowLogMax): the highest bit of the size
ZSTD_DCtx_getParameter(z) == z.windowLogMax

\* the generic setter taking the upper bound for the first value too large
vibe_zstd_cctx_set_param_exclusiveMax(params, value, i, multithread) ==
  LET n == NUM2INT(value)
      val == n.val
      bounds == ZSTD_cParam_getBounds(cctx_param_table[i].param, multithread)
      r == ZSTD_CCtx_setParameter(params, i, val, multithread)
  IN IF n.raises # "none" THEN [params |-> params, ret |-> Raise(n.raises), engine |-> FALSE]
     ELSE IF val < bounds.lowerBound \/ val >= bounds.upperBound
     THEN [params |-> params, ret |-> Raise("OutOfBounds"), engine |-> FALSE]
     ELSE IF ZSTD_isError(r.result)
     THEN [params |-> r.params, ret |-> Raise("EngineRejected"), engine |-> TRUE]
     ELSE [params |-> r.params, ret |-> Self, engine |-> TRUE]

\* the generic setter asking the engine before it looks at the bounds
vibe_zstd_cctx_set_param_engineFirst(params, value, i, multithread) ==
  LET n == NUM2INT(value)
      val == n.val
      bounds == ZSTD_cParam_getBounds(cctx_param_table[i].param, multithread)
      r == ZSTD_CCtx_setParameter(params, i, val, multithread)
  IN IF n.raises # "none" THEN [params |-> params, ret |-> Raise(n.raises), engine |-> FALSE]
     ELSE IF ZSTD_isError(r.result)
     THEN [params |-> r.params, ret |-> Raise("EngineRejected"), engine |-> TRUE]
     ELSE IF val < bounds.lowerBound \/ val > bounds.upperBound
     THEN [params |-> r.params, ret |-> Raise("OutOfBounds"), engine |-> TRUE]
     ELSE [params |-> r.params, ret |-> Self, engine |-> TRUE]

\* vibe_zstd_cctx_set_param_generic for the parameter of entry i: the
\* session's parameters, what is returned or raised, and whether the engine
\* was asked to set the parameter
vibe_zstd_cctx_set_param_generic(params, value, i, multithread) ==
  LET n == NUM2INT(value)
      val == n.val
      bounds == ZSTD_cParam_getBounds(cctx_param_table[i].param, multithread)
      r == ZSTD_CCtx_setParameter(params, i, val, multithread)
  IN IF n.raises # "none" THEN [params |-> params, ret |-> Raise(n.raises), engine |-> FALSE]
     ELSE IF val < bounds.lowerBound \/ val > bounds.upperBound
     THEN [params |-> params, ret |-> Raise("OutOfBounds"), engine |-> FALSE]
     ELSE IF ZSTD_isError(r.result)
     THEN [params |-> r.params, ret |-> Raise("EngineRejected"), engine |-> TRUE]
     ELSE [params |-> r.params, ret |-> Self, engine |-> TRUE]

\* vibe_zstd_cctx_set_param_bool for the parameter of entry i
vibe_zstd_cctx_set_param_bool(params, value, i, multithread) ==
  LET n == NUM2INT(value)
      val == IF FIXNUM_P(value) THEN (IF n.val # 0 THEN 1 ELSE 0)
             ELSE (IF RTEST(value) THEN 1 ELSE 0)
      bounds == ZSTD_cParam_getBounds(cctx_param_table[i].param, multithread)
      r == ZSTD_CCtx_setParameter(params, i, val, multithread)
  IN IF FIXNUM_P(value) /\ n.raises # "none"
     THEN [params |-> params, ret |-> Raise(n.raises), engine |-> FALSE]
     ELSE IF val < bounds.lowerBound \/ val > bounds.upperBound
     THEN [params |-> params, ret |-> Raise("OutOfBounds"), engine |-> FALSE]
     ELSE IF ZSTD_isError(r.result)
     THEN [params |-> r.params, ret |-> Raise("EngineRejected"), engine |-> TRUE]
     ELSE [params |-> r.params, ret |-> Self, engine |-> TRUE]

\* the method name= of a compression session, for a name of the table
vibe_zstd_cctx_set(params, name, value, multithread) ==
  IF name \in CCTX_PARAM_BOOL_ACCESSORS
  THEN vibe_zstd_cctx_set_param_bool(params, value, lookup_cctx_param(name), multithread)
  ELSE vibe_zstd_cctx_set_param_generic(params, value, lookup_cctx_param(name), multithread)

\* vibe_zstd_cctx_get_param_generic
vibe_zstd_cctx_get_param_generic(params, i) == INT2NUM(ZSTD_CCtx_getParameter(params, i))

\* vibe_zstd_cctx_get_param_bool
vibe_zstd_cctx_get_param_bool(params, i) ==
  IF ZSTD_CCtx_getParameter(params, i) # 0 THEN Qtrue ELSE Qfalse

\* the method name of a compression session, for a name of the table
vibe_zstd_cctx_get(params, name) ==
  IF name \in CCTX_PARAM_BOOL_ACCESSORS
  THEN vibe_zstd_cctx_get_param_bool(params, lookup_cctx_param(name))
  ELSE vibe_zstd_cctx_get_param_generic(params, lookup_cctx_param(name))

\* vibe_zstd_dctx_set_param_generic(ZSTD_d_windowLogMax) on the engine
\* session z of a decompression session
vibe_zstd_dctx_set_param_generic(z, value) ==
  LET n == NUM2INT(value)
      val == n.val
      bounds == ZSTD_dParam_getBounds("ZSTD_d_windowLogMax")
      r == ZSTD_DCtx_setParameter(z, val)
  IN IF n.raises # "none" THEN [z |-> z, ret |-> Raise(n.raises), engine |-> FALSE]
     ELSE IF val < bounds.lowerBound \/ val > bounds.upperBound
     THEN [z |-> z, ret |-> Raise("OutOfBounds"), engine |-> FALSE]
     ELSE IF ZSTD_isError(r.result)
     THEN [z |-> r.z, ret |-> Raise("EngineRejected"), engine |-> TRUE]
     ELSE [z |-> r.z, ret |-> Self, engine |-> TRUE]

\* vibe_zstd_dctx_get_param_generic(ZSTD_d_windowLogMax)
vibe_zstd_dctx_get_param_generic(z) == INT2NUM(ZSTD_DCtx_getParameter(z))

\* the Hash {min:, max:} of bounds
BoundsHash(bounds) == [kind |-> "bounds", min |-> bounds.lowerBound, max |-> bounds.upperBound]

UnknownParameter == [kind |-> "UnknownParameter", min |-> 0, max |-> 0]

\* vibe_zstd_cctx_parameter_bounds
vibe_zstd_cctx_parameter_bounds(param_sym, multithread) ==
  IF lookup_cctx_param(param_sym) = 0 THEN UnknownParameter
  ELSE BoundsHash(ZSTD_cParam_getBounds(cctx_param_table[lookup_cctx_param(param_sym)].param,
                                        multithread))

\* vibe_zstd_dctx_parameter_bounds
vibe_zstd_dctx_parameter_bounds(param_sym) ==
  IF lookup_dctx_param(param_sym) = 0 THEN UnknownParameter
  ELSE BoundsHash(ZSTD_dParam_getBounds(dctx_param_table[lookup_dctx_param(param_sym)].param))

(***************************************************************************)
(* One-shot compression of a session (cctx.c).                             *)
(***************************************************************************)
\* ZSTD_createCCtx
ZSTD_createCCtx == [pledgedSrcSizePlusOne |-> 0, params |-> ZSTD_CCtxParams_init]

\* vibe_zstd_cctx_compress returning its whole buffer, rb_str_set_len left out
vibe_zstd_cctx_compress_noSetLen(cctx, data, level, dictID, pledged_size) ==
  LET dstCapacity == ZSTD_compressBound(Len(data))
      r == ZSTD_compress(dstCapacity, data, dictID)
  IN [cctx |-> [cctx EXCEPT !.pledgedSrcSizePlusOne = Len(data) + 1],
      ret |-> RString(StringValue(memcpy(rb_str_new(dstCapacity, 0), 0, r.out))),
      nogvl |-> TRUE, compressionLevel |-> ZSTD_defaultCLevel]

\* vibe_zstd_cctx_compress(data, level:, dict:, pledged_size:); level is
\* nil or an Integer, and compressionLevel is the level given to the engine
\* call, which ZSTD_compressCCtx compresses with whatever the parameters
\* of the session are, and which ZSTD_compress_usingCDict does not get.  The
\* engine call replaces the pledged size by the size of the source it is
\* given.  No byte of the result buffer is read before the engine has
\* written it
vibe_zstd_cctx_compress(cctx, data, level, dictID, pledged_size) ==
  LET lvl == IF level.kind # "nil" THEN NUM2INT(level).val ELSE ZSTD_defaultCLevel
      pledged == IF pledged_size # NilInt THEN [cctx EXCEPT !.pledgedSrcSizePlusOne =
                                                              pledged_size + 1]
                 ELSE cctx
      dstCapacity == ZSTD_compressBound(Len(data))
      result_str == rb_str_new(dstCapacity, 0)
      r == ZSTD_compress(dstCapacity, data, dictID)
      after == [pledged EXCEPT !.pledgedSrcSizePlusOne = Len(data) + 1]
  IN IF level.kind # "nil" /\ NUM2INT(level).raises # "none"
     THEN [cctx |-> cctx, ret |-> Raise(NUM2INT(level).raises), nogvl |-> FALSE,
           compressionLevel |-> lvl]
     ELSE IF ZSTD_isError(r.result)
     THEN [cctx |-> after, ret |-> Raise("CompressionFailure"), nogvl |-> TRUE,
           compressionLevel |-> lvl]
     ELSE [cctx |-> after,
           ret |-> RString(StringValue(rb_str_set_len(memcpy(result_str, 0, r.out),
                                                      r.result))),
           nogvl |-> TRUE, compressionLevel |-> lvl]

(***************************************************************************)
(* One-shot decompression of a session (dctx.c).                           *)
(***************************************************************************)
\* the scan advancing by the header of a skippable frame only
RECURSIVE skip_skippable_headers(_, _)
skip_skippable_headers(src, offset) ==
  IF offset < Len(src) /\ ZSTD_isSkippableFrame(Drop(src, offset))
  THEN IF ZSTD_isError(ZSTD_findFrameCompressedSize(Drop(src, offset)))
       THEN [offset |-> offset, err |-> TRUE]
       ELSE skip_skippable_headers(src, offset + ZSTD_SKIPPABLEHEADERSIZE)
  ELSE [offset |-> offset, err |-> FALSE]

\* "Skip any leading skippable frames": the offset reached, or an error
RECURSIVE skip_skippable_frames(_, _)
skip_skippable_frames(src, offset) ==
  IF offset < Len(src) /\ ZSTD_isSkippableFrame(Drop(src, offset))
  THEN LET frameSize == ZSTD_findFrameCompressedSize(Drop(src, offset))
       IN IF ZSTD_isError(frameSize) THEN [offset |-> offset, err |-> TRUE]
          ELSE skip_skippable_frames(src, offset + frameSize)
  ELSE [offset |-> offset, err |-> FALSE]

\* "Resolve initial_capacity fallback chain"; 0 stands for not set
resolve_initial_capacity(per_call, instance, class_default) ==
  IF per_call # 0 THEN per_call
  ELSE IF instance # 0 THEN instance
  ELSE IF class_default # 0 THEN class_default
  ELSE ZSTD_DStreamOutSize

\* a capacity grown to what is needed and no further
double_until_fits_exact(result_capacity, needed) ==
  IF result_capacity < needed THEN needed ELSE result_capacity

\* "Double capacity until it fits"
RECURSIVE double_until_fits(_, _)
double_until_fits(result_capacity, needed) ==
  IF result_capacity < needed THEN double_until_fits(result_capacity * 2, needed)
  ELSE result_capacity

\* the loop "while (input.pos < input.size)" of the unknown-size path; st
\* holds the engine session, the input position, the result String with its
\* size and capacity, the capacities the result has had, the copies made
\* into it (result_size, output.pos, result_capacity and the room of the
\* String's buffer at each memcpy),
\* what the engine has produced and the number of engine calls; env holds junk
RECURSIVE decompress_stream_loop(_, _, _)
decompress_stream_loop(st, src, env) ==
  LET \* after ZSTD_decompressStream returned r, with the capacity needed
      \* and the result String, resized if its capacity was less
      Decompressed(r, capacity, resized) ==
        IF ZSTD_isError(r.ret)
        THEN [st EXCEPT !.z = r.z, !.pos = r.pos, !.calls = @ + 1, !.err = TRUE]
        ELSE decompress_stream_loop(
               [st EXCEPT !.z = r.z, !.pos = r.pos, !.calls = @ + 1,
                          !.result = memcpy(resized, st.result_size, r.out),
                          !.result_size = @ + Len(r.out),
                          !.result_capacity = capacity,
                          !.capacities = IF capacity > st.result_capacity
                                         THEN Append(@, capacity) ELSE @,
                          !.copies = IF r.out = << >> THEN @
                                     ELSE Append(@, [result_size |-> st.result_size,
                                                     pos |-> Len(r.out),
                                                     result_capacity |-> capacity,
                                                     room |-> Len(resized.buf)]),
                          !.produced = @ \o r.out],
               src, env)
      Sized(r, capacity) ==
        Decompressed(r, capacity,
                     IF capacity > st.result_capacity
                     THEN rb_str_resize(st.result, capacity, env.junk) ELSE st.result)
      Called(r) ==
        Sized(r, double_until_fits(st.result_capacity, st.result_size + Len(r.out)))
  IN IF st.pos >= Len(src) THEN [st EXCEPT !.err = FALSE]
     ELSE Called(ZSTD_decompressStream(st.z, src, st.pos, ZSTD_DStreamOutSize))

\* what a call of decompress reports besides its return value
NoReport ==
  [offset |-> 0, initial_capacity |-> 0, unknown |-> FALSE, calls |-> 0, nogvl |-> FALSE,
   produced |-> << >>, capacities |-> << >>, copies |-> << >>]

\* decompress without the scan for skippable frames and without the test
\* that a frame remains: the content size is asked of the input as given
vibe_zstd_dctx_decompress_noScan(dctx, class_default, data, dictID, per_call, env) ==
  LET Known(known) ==
        [dctx |-> dctx,
         ret |-> IF ZSTD_isError(known.result) THEN Raise("DecompressionFailure")
                 ELSE RString(known.out),
         report |-> [NoReport EXCEPT !.calls = 1, !.nogvl = TRUE]]
      Sized(contentSize) ==
        IF contentSize = ZSTD_CONTENTSIZE_ERROR \/ contentSize = ZSTD_CONTENTSIZE_UNKNOWN
        THEN [dctx |-> dctx, ret |-> Raise("InvalidFrame"), report |-> NoReport]
        ELSE Known(ZSTD_decompress(contentSize, data, dictID))
  IN Sized(ZSTD_getFrameContentSize(data))

\* vibe_zstd_dctx_decompress(data, dict:, initial_capacity:) on the session
\* dctx with the class default class_default; per_call is NilInt when the
\* option is absent
vibe_zstd_dctx_decompress(dctx, class_default, data, dictID, per_call, env) ==
  LET \* the unknown-size path, after its loop ended in s
      Unknown(s, report) ==
        [dctx |-> [dctx EXCEPT !.dctx = s.z],
         ret |-> IF s.err THEN Raise("DecompressionFailure")
                 ELSE RString(StringValue(rb_str_resize(s.result, s.result_size, env.junk))),
         report |-> [report EXCEPT !.unknown = TRUE, !.calls = s.calls,
                                   !.produced = s.produced, !.capacities = s.capacities,
                                   !.copies = s.copies]]
      \* the known-size path, after the engine returned known
      Known(known, contentSize, report) ==
        [dctx |-> [dctx EXCEPT !.dctx.kind = "hdr", !.dctx.need = ZSTD_FRAMEHEADERSIZE_MIN],
         ret |-> IF ZSTD_isError(known.result) THEN Raise("DecompressionFailure")
                 ELSE RString(StringValue(rb_str_set_len(
                                memcpy(rb_str_new(contentSize, env.junk), 0, known.out),
                                known.result))),
         report |-> [report EXCEPT !.calls = 1, !.nogvl = TRUE]]
      \* with a frame at src whose header says contentSize
      Framed(src, contentSize, initial_capacity, report) ==
        IF contentSize = ZSTD_CONTENTSIZE_ERROR
        THEN [dctx |-> dctx, ret |-> Raise("InvalidFrame"), report |-> report]
        ELSE IF per_call = 0
        THEN [dctx |-> dctx, ret |-> Raise("ArgumentError"), report |-> report]
        ELSE IF contentSize = ZSTD_CONTENTSIZE_UNKNOWN
        THEN Unknown(decompress_stream_loop(
                       [z |-> dctx.dctx, pos |-> 0, err |-> FALSE, calls |-> 0,
                        result |-> rb_str_buf_new(initial_capacity, env.junk),
                        result_size |-> 0, result_capacity |-> initial_capacity,
                        capacities |-> <<initial_capacity>>, copies |-> << >>,
                        produced |-> << >>],
                       src, env),
                     [report EXCEPT !.initial_capacity = initial_capacity])
        ELSE Known(ZSTD_decompress(contentSize, src, dictID), contentSize,
                   [report EXCEPT !.initial_capacity = initial_capacity])
      \* after the scan for skippable frames
      Scanned(scan) ==
        IF scan.err \/ scan.offset >= Len(data)
        THEN [dctx |-> dctx, ret |-> Raise("InvalidFrame"),
              report |-> [NoReport EXCEPT !.offset = scan.offset]]
        ELSE Framed(Drop(data, scan.offset),
                    ZSTD_getFrameContentSize(Drop(data, scan.offset)),
                    resolve_initial_capacity(IF per_call = NilInt THEN 0 ELSE per_call,
                                             dctx.initial_capacity, class_default),
                    [NoReport EXCEPT !.offset = scan.offset])
  IN Scanned(skip_skippable_frames(data, 0))

\* vibe_zstd_dctx_set_initial_capacity(value): the field afterwards and
\* whether the call raises ArgumentError
vibe_zstd_dctx_set_initial_capacity(initial_capacity, value) ==
  IF value = NilInt THEN [initial_capacity |-> 0, raises |-> FALSE]
  ELSE IF value = 0 THEN [initial_capacity |-> initial_capacity, raises |-> TRUE]
  ELSE [initial_capacity |-> value, raises |-> FALSE]

\* vibe_zstd_dctx_set_default_initial_capacity(value), likewise
vibe_zstd_dctx_set_default_initial_capacity(capacity, value) ==
  IF value = NilInt THEN [initial_capacity |-> 0, raises |-> FALSE]
  ELSE IF value = 0 THEN [initial_capacity |-> capacity, raises |-> TRUE]
  ELSE [initial_capacity |-> value, raises |-> FALSE]

\* vibe_zstd_dctx_get_default_initial_capacity
vibe_zstd_dctx_get_default_initial_capacity(class_default) ==
  IF class_default = 0 THEN ZSTD_DStreamOutSize ELSE class_default

\* vibe_zstd_dctx_get_initial_capacity
vibe_zstd_dctx_get_initial_capacity(dctx, class_default) ==
  IF dctx.initial_capacity = 0 THEN vibe_zstd_dctx_get_default_initial_capacity(class_default)
  ELSE dctx.initial_capacity

\* ZSTD_ResetDirective
ZSTD_reset_session_only == 1

ZSTD_reset_parameters == 2

ZSTD_reset_session_and_parameters == 3

\* ZSTD_DCtx_reset: the session afterwards and the code returned; the
\* parameters are reset only between frames
ZSTD_DCtx_reset(z, directive) ==
  LET session == IF directive \in {ZSTD_reset_session_only, ZSTD_reset_session_and_parameters}
                 THEN [z EXCEPT !.stage = "init"]
                 ELSE z
  IN IF directive \in {ZSTD_reset_parameters, ZSTD_reset_session_and_parameters}
     THEN IF session.stage # "init"
          THEN [z |-> session, code |-> ZSTD_ERROR]
          ELSE [z |-> [session EXCEPT !.ddict = 0,
                                      !.windowLogMax = ZSTD_WINDOWLOG_LIMIT_DEFAULT],
                code |-> 0]
     ELSE [z |-> session, code |-> 0]

\* the directive vibe_zstd_dctx_reset derives from its argument, or the
\* exception it raises before it calls the engine
reset_directive(reset_mode) ==
  IF reset_mode = Qnil
  THEN [raises |-> "none", directive |-> ZSTD_reset_session_and_parameters]
  ELSE LET Mode(mode) ==
             IF mode.raises # "none" THEN [raises |-> mode.raises, directive |-> 0]
             ELSE IF mode.val \in {ZSTD_reset_session_only, ZSTD_reset_parameters,
                                   ZSTD_reset_session_and_parameters}
             THEN [raises |-> "none", directive |-> mode.val]
             ELSE [raises |-> "ArgumentError", directive |-> 0]
       IN Mode(NUM2INT(reset_mode))

\* a reset that takes the session's initial_capacity for a parameter
vibe_zstd_dctx_reset_clearsCapacity(dctx, reset_mode) ==
  LET Reset(d) ==
        IF d.raises # "none"
        THEN [dctx |-> dctx, ret |-> Raise(d.raises), directive |-> 0]
        ELSE LET Returned(r) ==
                   [dctx |-> [dctx EXCEPT !.dctx = r.z,
                                          !.initial_capacity =
                                             IF d.directive = ZSTD_reset_session_only
                                             THEN @ ELSE 0],
                    ret |-> IF ZSTD_isError(r.code) THEN Raise("RuntimeError") ELSE Self,
                    directive |-> d.directive]
             IN Returned(ZSTD_DCtx_reset(dctx.dctx, d.directive))
  IN Reset(reset_directive(reset_mode))

\* vibe_zstd_dctx_reset(reset_mode): the session afterwards, the value
\* returned or the exception raised, and the directive given to the
\* engine's reset (0 when the engine's reset is not called)
vibe_zstd_dctx_reset(dctx, reset_mode) ==
  LET Reset(d) ==
        IF d.raises # "none"
        THEN [dctx |-> dctx, ret |-> Raise(d.raises), directive |-> 0]
        ELSE LET Returned(r) ==
                   [dctx |-> [dctx EXCEPT !.dctx = r.z],
                    ret |-> IF ZSTD_isError(r.code) THEN Raise("RuntimeError") ELSE Self,
                    directive |-> d.directive]
             IN Returned(ZSTD_DCtx_reset(dctx.dctx, d.directive))
  IN Reset(reset_directive(reset_mode))

(***************************************************************************)
(* Skippable frames written and read (frames.c).                           *)
(***************************************************************************)
\* VibeZstd.write_skippable_frame(data, magic_number:); magic_number is
\* NilInt when the option is absent
vibe_zstd_write_skippable_frame(data, magic_number, junk) ==
  LET magic_variant == IF magic_number = NilInt THEN 0 ELSE magic_number
      frame_size == ZSTD_SKIPPABLEHEADERSIZE + Len(data)
      Written(frame) ==
        RString(StringValue(rb_str_set_len(memcpy(rb_str_buf_new(frame_size, junk), 0, frame),
                                           Len(frame))))
  IN IF magic_variant > 15 THEN Raise("ArgumentError")
     ELSE Written(ZSTD_writeSkippableFrame(data, magic_variant))

\* what read_skippable_frame returns: the Array [content, magic_variant]
SkippableContent(content, magic_variant) ==
  [kind |-> "ary", str |-> content, variant |-> magic_variant]

\* read_skippable_frame leaving the length of its result String as created
vibe_zstd_read_skippable_frame_noSetLen(data, junk) ==
  LET content_size == MEM_readLE32(data, 5)
      Read(result) ==
        SkippableContent(StringValue(memcpy(result, 0, SubSeq(data, ZSTD_SKIPPABLEHEADERSIZE + 1,
                                                              ZSTD_SKIPPABLEHEADERSIZE
                                                                + content_size))),
                         data[1] - ZSTD_MAGIC_SKIPPABLE_START[1])
  IN IF ~ZSTD_isSkippableFrame(data) \/ Len(data) < ZSTD_SKIPPABLEHEADERSIZE
     THEN Raise("ArgumentError")
     ELSE IF ZSTD_SKIPPABLEHEADERSIZE + content_size > Len(data) THEN Raise("RuntimeError")
     ELSE Read(rb_str_buf_new(content_size, junk))

\* VibeZstd.read_skippable_frame(data): the content size is read from the
\* bytes 4 to 7 of data, a String with room for it is made, and
\* ZSTD_readSkippableFrame, which fails when data is shorter than the frame,
\* copies the content there and reports its size and the magic variant
vibe_zstd_read_skippable_frame(data, junk) ==
  LET content_size == MEM_readLE32(data, 5)
      \* ZSTD_readSkippableFrame
      skippableFrameSize == ZSTD_SKIPPABLEHEADERSIZE + content_size
      magicVariant == data[1] - ZSTD_MAGIC_SKIPPABLE_START[1]
      Read(result) ==
        SkippableContent(
          StringValue(rb_str_set_len(
                        memcpy(result, 0, SubSeq(data, ZSTD_SKIPPABLEHEADERSIZE + 1,
                                                 skippableFrameSize)),
                        skippableFrameSize - ZSTD_SKIPPABLEHEADERSIZE)),
          magicVariant)
  IN IF ~ZSTD_isSkippableFrame(data) \/ Len(data) < ZSTD_SKIPPABLEHEADERSIZE
     THEN Raise("ArgumentError")
     ELSE IF skippableFrameSize > Len(data) THEN Raise("RuntimeError")
     ELSE Read(rb_str_buf_new(content_size, junk))

(***************************************************************************)
(* Setter methods and the option map of new (cctx.c, dctx.c).              *)
(***************************************************************************)
\* the setters of a compression session with the table's names only
cctx_setters_tableOnly ==
  [n \in {cctx_param_table[i].name : i \in 1..Len(cctx_param_table)} |-> n]

\* vibe_zstd_cctx_init_class: the methods name= of a compression session,
\* each with the entry of the table whose parameter it sets; one is defined
\* with rb_define_method for every entry, and five more with rb_define_alias
cctx_setters ==
  [n \in {cctx_param_table[i].name : i \in 1..Len(cctx_param_table)}
           \cup {"level", "long_distance_matching", "checksum", "content_size", "dict_id"} |->
     CASE n = "level" -> "compression_level"
       [] n = "long_distance_matching" -> "enable_long_distance_matching"
       [] n = "checksum" -> "checksum_flag"
       [] n = "content_size" -> "content_size_flag"
       [] n = "dict_id" -> "dict_id_flag"
       [] OTHER -> n]

\* vibe_zstd_dctx_init_class: the methods name= of a decompression session
dctx_setters ==
  [n \in {"window_log_max", "max_window_log", "initial_capacity"} |->
     IF n = "max_window_log" THEN "window_log_max" ELSE n]

\* vibe_zstd_cctx_init_param_iter: rb_funcall of the method key= with the
\* value, which raises NoMethodError where the session has no such method;
\* also what the call session.key = value does
vibe_zstd_cctx_init_param_iter(params, key, value, multithread) ==
  IF key \notin DOMAIN cctx_setters
  THEN [params |-> params, ret |-> Raise("NoMethodError"), engine |-> FALSE]
  ELSE vibe_zstd_cctx_set(params, cctx_setters[key], value, multithread)

\* vibe_zstd_dctx_init_param_iter, for a value that is an int
vibe_zstd_dctx_init_param_iter(d, key, value) ==
  LET Capacity(r) ==
        [dctx |-> [d EXCEPT !.initial_capacity = r.initial_capacity],
         ret |-> IF r.raises THEN Raise("ArgumentError") ELSE Self]
      Parameter(r) == [dctx |-> [d EXCEPT !.dctx = r.z], ret |-> r.ret]
  IN IF key \notin DOMAIN dctx_setters THEN [dctx |-> d, ret |-> Raise("NoMethodError")]
     ELSE IF dctx_setters[key] = "initial_capacity"
     THEN Capacity(vibe_zstd_dctx_set_initial_capacity(d.initial_capacity, value.int))
     ELSE Parameter(vibe_zstd_dctx_set_param_generic(d.dctx, value))

(***************************************************************************)
(* State.                                                                  *)
(***************************************************************************)
VARIABLES
  cstream,   \* the writer's engine session (vibe_zstd_cstream.cstream)
  sink,      \* the bytes the writer's sink has received (vibe_zstd_cstream.io)
  dstream,   \* the reader: engine session, input window, eof, initial_chunk_size
  source,    \* the reader's source (vibe_zstd_dstream.io)
  cctx,      \* a compression session (vibe_zstd_cctx)
  dctx,      \* a decompression session (vibe_zstd_dctx): engine session, initial_capacity
  default_initial_capacity,  \* the static of dctx.c
  held,      \* the byte string a caller of the sessions holds, and how it was made
  hist,      \* what the callers did and got
  last       \* the most recent call and its outcome

vars == <<cstream, sink, dstream, source, cctx, dctx, default_initial_capacity, held,
          hist, last>>

streamVars == <<cstream, sink, dstream, source>>

sessionVars == <<cctx, dctx, default_initial_capacity, held>>

\* dictionary identifiers; 0 stands for no dictionary
MaxDict == 1

DictIDs == 0..MaxDict

\* calls made on one writer
MaxWriterCalls == 4

\* largest initial_chunk_size option given to a reader
MaxChunkSize == 1

\* largest initial capacity: option, session attribute or class default
MaxCap == 2

\* longest content of a skippable frame
MaxSkipLen == 1

\* skippable frames put in front of a byte string
MaxSkips == 2

\* bytes cut from the end of a byte string
MaxCut == 1

\* vibe_zstd_reader_initialize on a source holding data
vibe_zstd_reader_initialize(dictID, initial_chunk_size) ==
  [dstream |-> ZSTD_createDStream(dictID), input |-> << >>, pos |-> 0, eof |-> FALSE,
   initial_chunk_size |-> initial_chunk_size]

\* vibe_zstd_dctx_alloc and vibe_zstd_dctx_initialize without options
\* leave initial_capacity with the value the allocator left there
vibe_zstd_dctx_alloc(initial_capacity) ==
  [dctx |-> ZSTD_createDStream(0), initial_capacity |-> initial_capacity]

NothingHeld ==
  [bytes |-> << >>, frame |-> << >>, plain |-> << >>, dict |-> 0, pledged_size |-> NilInt,
   skips |-> << >>, skipped |-> << >>, cut |-> 0, kind |-> "none"]

NoCall ==
  [op |-> "none", ret |-> Qnil, arg |-> 0, writes |-> << >>, outs |-> << >>,
   calls |-> 0, pulls |-> 0, ended |-> FALSE, src_eof |-> FALSE, produced |-> << >>,
   requested |-> NilInt, consumed |-> << >>, pulled_at |-> << >>, kept |-> << >>]

\* the state after the construction of a writer on an empty sink
InitStream ==
  /\ \E dictID \in DictIDs : cstream = ZSTD_createCStream(dictID)
  /\ sink = << >>
  /\ dstream = vibe_zstd_reader_initialize(0, 0)
  /\ source = [data |-> << >>, rpos |-> 0, chunk |-> 1]
  /\ hist = [phase |-> "writing", written |-> << >>, wcalls |-> 0, finishes |-> 0, late |-> FALSE,
             flushed |-> FALSE, resumed |-> FALSE,
             returned |-> << >>, eos |-> FALSE, raised |-> FALSE, zero |-> FALSE]
  /\ last = NoCall
  /\ cctx = ZSTD_createCCtx
  /\ dctx = vibe_zstd_dctx_alloc(0)
  /\ default_initial_capacity = 0
  /\ held = NothingHeld

WriterWrite ==
  \E data \in SeqsUpTo(DataByte, MaxReq) :
    LET Returned(r) ==
          /\ cstream' = r.zc
          /\ sink' = sink \o Flatten(r.writes)
          /\ last' = [NoCall EXCEPT !.op = "write", !.writes = r.writes, !.outs = r.outs,
                            !.kept = writer_kept(r.writes, r.outs),
                            !.arg = Len(data)]
    IN /\ hist.phase = "writing"
       /\ hist.wcalls < MaxWriterCalls
       /\ Len(hist.written) + Len(data) <= MaxData
       /\ Returned(vibe_zstd_writer_write(cstream, data, 0, << >>, << >>))
       /\ hist' = [hist EXCEPT !.written = @ \o data, !.wcalls = @ + 1,
                               !.late = @ \/ hist.finishes > 0,
                               !.resumed = @ \/ (hist.flushed /\ data # << >>)]
       /\ UNCHANGED <<dstream, source, sessionVars>>

WriterFlush ==
  LET Returned(r) ==
        /\ cstream' = r.zc
        /\ sink' = sink \o Flatten(r.writes)
        /\ last' = [NoCall EXCEPT !.op = "flush", !.writes = r.writes, !.outs = r.outs,
                          !.kept = writer_kept(r.writes, r.outs)]
        /\ hist' = [hist EXCEPT !.wcalls = @ + 1, !.late = @ \/ hist.finishes > 0,
                                !.flushed = @ \/ r.writes # << >>]
  IN /\ hist.phase = "writing"
     /\ hist.wcalls < MaxWriterCalls
     /\ Returned(vibe_zstd_writer_flush(cstream, << >>, << >>))
     /\ UNCHANGED <<dstream, source, sessionVars>>

WriterFinish ==
  LET Returned(r) ==
        /\ cstream' = r.zc
        /\ sink' = sink \o Flatten(r.writes)
        /\ last' = [NoCall EXCEPT !.op = "finish", !.writes = r.writes, !.outs = r.outs,
                          !.kept = writer_kept(r.writes, r.outs)]
  IN /\ hist.phase = "writing"
     /\ hist.wcalls < MaxWriterCalls
     /\ Returned(vibe_zstd_writer_finish(cstream, << >>, << >>))
     /\ hist' = [hist EXCEPT !.wcalls = @ + 1, !.finishes = @ + 1]
     /\ UNCHANGED <<dstream, source, sessionVars>>

\* a reader is constructed on a source holding what the sink has received
ReaderInitialize ==
  \E dictID \in DictIDs, ics \in 0..MaxChunkSize, chunk \in 1..ZSTD_DStreamInSize :
    /\ hist.phase = "writing"
    /\ dstream' = vibe_zstd_reader_initialize(dictID, ics)
    /\ source' = [data |-> sink, rpos |-> 0, chunk |-> chunk]
    /\ hist' = [hist EXCEPT !.phase = "reading"]
    /\ last' = [NoCall EXCEPT !.op = "new"]
    /\ UNCHANGED <<cstream, sink, sessionVars>>

ReaderRead ==
  \E size_arg \in {NilInt} \cup 0..MaxReq :
    LET Returned(r) ==
          /\ dstream' = r.d
          /\ source' = r.src
          /\ last' = [NoCall EXCEPT !.op = "read", !.ret = r.ret, !.calls = r.calls,
                                    !.pulls = r.pulls, !.arg = size_arg,
                                    !.ended = r.ended, !.src_eof = r.src_eof,
                                    !.produced = r.produced,
                                    !.requested = r.requested,
                                    !.consumed = r.consumed,
                                    !.pulled_at = r.pulled_at]
          /\ hist' = [hist EXCEPT !.returned = @ \o r.ret.str,
                                  !.eos = @ \/ r.ret = Qnil,
                                  !.raised = @ \/ r.ret.kind = "RuntimeError",
                                  !.zero = @ \/ size_arg = 0]
    IN /\ hist.phase = "reading"
       /\ Returned(vibe_zstd_reader_read(dstream, source, size_arg))
       /\ UNCHANGED <<cstream, sink, sessionVars>>

NextStream == WriterWrite \/ WriterFlush \/ WriterFinish \/ ReaderInitialize \/ ReaderRead

SpecStream == InitStream /\ [][NextStream]_vars

(***************************************************************************)
(* Properties of the streaming adapters.                                   *)
(***************************************************************************)
IsPrefix(s, u) == Len(s) <= Len(u) /\ s = SubSeq(u, 1, Len(s))

\* the writer was given its bytes and then finished, once, as its last call,
\* and a reader with the writer's dictionary has made only reads of one byte
\* or more on what the sink received
FinishedThenRead ==
  /\ hist.phase = "reading"
  /\ hist.finishes = 1
  /\ ~hist.late
  /\ ~hist.zero
  /\ cstream.cdict \in {0, dstream.dstream.ddict}

\* C1: bytes written to a StreamWriter in chunks and finished, then read back
\* through a StreamReader with reads of any positive sizes, come back
\* unchanged: no read fails, what the reads have returned so far is always a
\* prefix of what was written, and once a read has returned the end-of-stream
\* marker the reads have returned all of it.
C1_StreamRoundTrip ==
  FinishedThenRead =>
    /\ ~hist.raised
    /\ IsPrefix(hist.returned, hist.written)
    /\ hist.eos => hist.returned = hist.written

\* three bytes written in two chunks, read back to the end-of-stream marker
C1_Witness ==
  /\ FinishedThenRead
  /\ hist.eos
  /\ hist.wcalls = 3
  /\ Len(hist.written) = MaxData
  /\ hist.written[1] # hist.written[2]
  /\ hist.returned = hist.written

\* C2: once the reader is Exhausted (eof), a read of any size returns the
\* end-of-stream marker, calls the engine zero times, reads nothing from the
\* source, and leaves the reader Exhausted.
C2_ExhaustedSticky ==
  [][(hist.phase = "reading" /\ dstream.eof) =>
       /\ vibe_zstd_reader_eof(dstream')
       /\ source' = source
       /\ last'.op = "read" /\ last'.ret = Qnil /\ last'.calls = 0 /\ last'.pulls = 0]_vars

\* a read of MaxReq bytes on an Exhausted reader whose source still holds
\* unread bytes: it returned without an engine call and without a source read
C2_Witness ==
  /\ hist.phase = "reading"
  /\ dstream.eof
  /\ last.op = "read" /\ last.arg = MaxReq
  /\ last.ret = Qnil /\ last.calls = 0 /\ last.pulls = 0
  /\ source.rpos < Len(source.data)

\* the sink received the beginning of a frame from a writer that was never
\* finished, and a reader has made only reads of one byte or more on it
TruncatedThenRead ==
  /\ hist.phase = "reading"
  /\ hist.finishes = 0
  /\ sink # << >>
  /\ ~hist.zero

\* C12: no read on a source that ends inside a frame returns the
\* end-of-stream marker.
C12_TruncatedStreamNotEndOfStream ==
  TruncatedThenRead => ~hist.eos

\* C13: a write or a flush after finish has returned leaves the engine
\* session as it is and sends nothing to the sink.
C13_FinishedRejectsWriteAndFlush ==
  [][(hist.finishes > 0 /\ last'.op \in {"write", "flush"}) =>
       /\ cstream' = cstream
       /\ sink' = sink]_vars

\* C14: a finish (or close) after finish has returned sends nothing to the
\* sink.
C14_SecondFinishNoOp ==
  [][(hist.finishes > 0 /\ last'.op = "finish") => sink' = sink]_vars

NonEmpty(piece) == piece # << >>

\* C15: in write, flush and finish the sink receives, one piece per engine
\* call that produced output and in the order of the calls, exactly what the
\* engine calls of that call produced; every piece has 1 to scratch-buffer-size
\* bytes; nothing produced stays with the writer.
C15_WriterForwardsEachOutput ==
  [][(last'.op \in {"write", "flush", "finish"}) =>
       /\ \A i \in 1..Len(last'.writes) :
            Len(last'.writes[i]) \in 1..ZSTD_CStreamOutSize
       /\ last'.writes = SelectSeq(last'.outs, NonEmpty)
       /\ sink' = sink \o Flatten(last'.outs)]_vars

\* a write of MaxData bytes that took three engine calls, each filling the
\* scratch buffer: three pieces reached the sink, in the order produced
C15_Witness ==
  /\ last.op = "write"
  /\ last.arg = MaxData
  /\ Len(last.outs) = 3
  /\ last.writes = last.outs
  /\ \A i \in 1..3 : Len(last.writes[i]) = ZSTD_CStreamOutSize
  /\ sink = Flatten(last.writes)
  /\ last.writes[1] # last.writes[2]

\* a write whose only engine call produced nothing: the sink was not called
C15_WitnessNoOutput ==
  /\ last.op = "write"
  /\ last.arg > 0
  /\ last.outs = << << >> >>
  /\ last.writes = << >>

\* what a decoder with the writer's dictionary gets out of the bytes in the
\* sink, and whether it has seen the end of a frame
SinkDecoded ==
  ZSTD_decompressStream(ZSTD_createDStream(cstream.cdict), sink, 0, MaxData + 1)

\* C16: when flush returns the engine holds no input and no output of the
\* writes before it, and the sink holds all of it; flush does not end the
\* frame: until finish the sink holds no complete frame, and after writes,
\* flushes and one finish it holds one complete frame of everything written.
C16_FlushKeepsFrameOpen ==
  /\ last.op = "flush" => cstream.inb = << >> /\ cstream.outb = << >>
  /\ (last.op = "flush" /\ hist.finishes = 0)
       => SinkDecoded.out = hist.written /\ SinkDecoded.ret > 0
  /\ hist.finishes = 0 => ZSTD_isError(ZSTD_findFrameCompressedSize(sink))
  /\ (hist.finishes = 1 /\ ~hist.late)
       => /\ ZSTD_findFrameCompressedSize(sink) = Len(sink)
          /\ SinkDecoded.out = hist.written /\ SinkDecoded.ret = 0

\* a write, a flush that sent bytes, another write and a finish: one frame
\* of both writes
C16_Witness ==
  /\ last.op = "finish"
  /\ hist.finishes = 1 /\ ~hist.late
  /\ hist.resumed
  /\ Len(hist.written) = MaxData
  /\ ZSTD_findFrameCompressedSize(sink) = Len(sink)

\* C17: a read during which the engine signalled the end of the frame
\* leaves the reader Exhausted, whatever it has produced.
C17_FrameCompleteExhausts ==
  (last.op = "read" /\ last.ended) => vibe_zstd_reader_eof(dstream)

\* C19: a read that does not raise returns the end-of-stream marker or a
\* String of 1 to requested_size bytes, the bytes the engine produced during
\* the call, in order; the marker exactly when it produced none, and then
\* eof? is true.
C19_ReadReturnsProduced ==
  (last.op = "read" /\ last.ret.kind \in {"nil", "str"}) =>
    /\ last.ret = Qnil <=> last.produced = << >>
    /\ last.ret # Qnil =>
         /\ last.ret = RString(last.produced)
         /\ Len(last.ret.str) \in 1..last.requested
         /\ last.arg # NilInt => last.requested = last.arg
    /\ last.ret = Qnil => vibe_zstd_reader_eof(dstream)

\* a read of MaxReq bytes that took several engine calls and returned fewer
\* bytes than asked for
C19_Witness ==
  /\ last.op = "read"
  /\ last.arg = MaxReq
  /\ last.calls >= 2
  /\ Len(last.ret.str) = 2
  /\ last.ret.str[1] # last.ret.str[2]
  /\ last.ret = RString(last.produced)

\* C20: a read during which the source signalled its end returns the
\* end-of-stream marker and leaves the reader Exhausted if the call has
\* produced nothing, and else returns all the bytes the call has produced.
C20_SourceEndReturnsProduced ==
  (last.op = "read" /\ last.src_eof) =>
    IF last.produced = << >>
    THEN last.ret = Qnil /\ vibe_zstd_reader_eof(dstream)
    ELSE last.ret = RString(last.produced)

\* the source ended after the call had produced two bytes: they are returned
C20_Witness ==
  /\ last.op = "read"
  /\ last.src_eof
  /\ Len(last.produced) = 2
  /\ last.ret = RString(last.produced)
  /\ IsPrefix(hist.returned, hist.written)

\* the source ended before the call had produced anything
C20_WitnessNothing ==
  /\ last.op = "read"
  /\ last.src_eof
  /\ last.calls > 0
  /\ last.produced = << >>
  /\ last.ret = Qnil /\ vibe_zstd_reader_eof(dstream)

(***************************************************************************)
(* One-shot sessions: a CCtx, a DCtx, the class default of DCtx, and the   *)
(* byte string that the caller passes to decompress.                       *)
(***************************************************************************)
\* the byte sequences given to the sessions: every length up to MaxData,
\* neighbouring bytes different
Payloads ==
  {s \in SeqsUpTo(DataByte, MaxData) : \A i \in 1..Len(s) : s[i] = (i - 1) % (MaxByteVal + 1)}

InitOneShot ==
  /\ cstream = ZSTD_createCStream(0)
  /\ sink = << >>
  /\ dstream = vibe_zstd_reader_initialize(0, 0)
  /\ source = [data |-> << >>, rpos |-> 0, chunk |-> 1]
  /\ cctx = ZSTD_createCCtx
  /\ \E indeterminate \in 0..MaxCap : dctx = vibe_zstd_dctx_alloc(indeterminate)
  /\ default_initial_capacity = 0
  /\ held = NothingHeld
  /\ hist = [instance |-> 0]
  /\ last = [op |-> "none"]

\* cctx.compress(data, dict:, pledged_size:); the caller holds the result
CCtxCompress ==
  \E data \in Payloads, dictID \in DictIDs,
     pledged_size \in {NilInt} \cup 0..MaxData :
    LET Returned(r) ==
          /\ cctx' = r.cctx
          /\ held' = [NothingHeld EXCEPT !.bytes = r.ret.str, !.frame = r.ret.str,
                                         !.plain = data, !.dict = dictID,
                                         !.pledged_size = pledged_size, !.kind = "oneshot"]
          /\ last' = [op |-> "compress", ret |-> r.ret, pledged_size |-> pledged_size]
    IN /\ held.kind = "none"
       /\ Returned(vibe_zstd_cctx_compress(cctx, data, Qnil, dictID, pledged_size))
       /\ UNCHANGED <<streamVars, dctx, default_initial_capacity, hist>>

\* a StreamWriter on a sink of its own is given data in two writes, with
\* or without a flush between them, and finished; the caller holds what the
\* sink received
WriterFrame ==
  \E data \in Payloads, dictID \in DictIDs, flush \in BOOLEAN :
    \E k \in 0..Len(data) :
      LET Finished(fin) ==
            /\ held' = [NothingHeld EXCEPT !.bytes = Flatten(fin.writes),
                                           !.frame = Flatten(fin.writes),
                                           !.plain = data, !.dict = dictID, !.kind = "stream"]
            /\ last' = [op |-> "writer"]
          SecondWritten(w2) == Finished(vibe_zstd_writer_finish(w2.zc, w2.writes, w2.outs))
          Flushed(fl) ==
            SecondWritten(vibe_zstd_writer_write(fl.zc, Drop(data, k), 0, fl.writes, fl.outs))
          FirstWritten(w1) ==
            Flushed(IF flush THEN vibe_zstd_writer_flush(w1.zc, w1.writes, w1.outs) ELSE w1)
      IN /\ held.kind = "none"
         /\ FirstWritten(vibe_zstd_writer_write(ZSTD_createCStream(dictID), Take(data, k),
                                                0, << >>, << >>))
         /\ UNCHANGED <<streamVars, cctx, dctx, default_initial_capacity, hist>>

\* VibeZstd.write_skippable_frame(content, magic_number:) put in front of
\* the byte string held, unless it raises
PrependSkippable ==
  \E content \in SeqsUpTo(DataByte, MaxSkipLen), magic_number \in {NilInt, 0, 15, 16},
     junk \in JunkBytes :
    LET Returned(ret) ==
          /\ held' = IF ret.kind # "str" THEN held
                     ELSE [held EXCEPT !.bytes = ret.str \o @,
                                       !.skips = <<Len(content)>> \o @,
                                       !.skipped = <<SkippableContent(content,
                                                       IF magic_number = NilInt THEN 0
                                                       ELSE magic_number)>> \o @]
          /\ last' = [op |-> "skippable", ret |-> ret, content |-> content,
                      magic_number |-> magic_number]
    IN /\ Len(held.skips) < MaxSkips
       /\ held.cut = 0
       /\ Returned(vibe_zstd_write_skippable_frame(content, magic_number, junk))
       /\ UNCHANGED <<streamVars, cctx, dctx, default_initial_capacity, hist>>

\* VibeZstd.read_skippable_frame(held)
ReadSkippableFrame ==
  \E junk \in JunkBytes :
    /\ last' = [op |-> "read_skippable", ret |-> vibe_zstd_read_skippable_frame(held.bytes, junk)]
    /\ UNCHANGED <<streamVars, sessionVars, hist>>

\* the caller cuts the last byte from the byte string held
Truncate ==
  /\ held.cut < MaxCut
  /\ held.bytes # << >>
  /\ held' = [held EXCEPT !.bytes = Take(@, Len(@) - 1), !.cut = @ + 1]
  /\ last' = [op |-> "truncate"]
  /\ UNCHANGED <<streamVars, cctx, dctx, default_initial_capacity, hist>>

\* dctx.initial_capacity = value
SetInitialCapacity ==
  \E value \in {NilInt} \cup 0..MaxCap :
    LET r == vibe_zstd_dctx_set_initial_capacity(dctx.initial_capacity, value)
    IN /\ dctx' = [dctx EXCEPT !.initial_capacity = r.initial_capacity]
       /\ hist' = IF r.raises THEN hist
                  ELSE [hist EXCEPT !.instance = IF value = NilInt THEN 0 ELSE value]
       /\ last' = [op |-> "initial_capacity=", raises |-> r.raises]
       /\ UNCHANGED <<streamVars, cctx, default_initial_capacity, held>>

\* DCtx.default_initial_capacity = value
SetDefaultInitialCapacity ==
  \E value \in {NilInt} \cup 0..MaxCap :
    LET r == vibe_zstd_dctx_set_default_initial_capacity(default_initial_capacity, value)
    IN /\ default_initial_capacity' = r.initial_capacity
       /\ last' = [op |-> "default_initial_capacity=", raises |-> r.raises]
       /\ UNCHANGED <<streamVars, cctx, dctx, held, hist>>

\* dctx.decompress(held, dict:, initial_capacity:) with the option
\* initial_capacity absent (NilInt) or drawn from a set of values
\* a session that has made no call, with the parameters and the
\* initial_capacity of session
UnusedSession(session) ==
  [session EXCEPT !.dctx = [ZSTD_createDStream(0) EXCEPT
                              !.ddict = session.dctx.ddict,
                              !.windowLogMax = session.dctx.windowLogMax]]

\* alone is what the same call returns on a session that has made no call
Decompress(Capacities) ==
  \E dictID \in DictIDs, per_call \in Capacities, junk \in JunkBytes :
    LET Returned(r, alone) ==
          /\ dctx' = r.dctx
          /\ last' = [op |-> "decompress", ret |-> r.ret, report |-> r.report,
                      dict |-> dictID, per_call |-> per_call, env |-> [junk |-> junk],
                      alone |-> alone.ret]
    IN /\ Returned(vibe_zstd_dctx_decompress(dctx, default_initial_capacity, held.bytes,
                                             dictID, per_call, [junk |-> junk]),
                   vibe_zstd_dctx_decompress(UnusedSession(dctx), default_initial_capacity,
                                             held.bytes, dictID, per_call, [junk |-> junk]))
       /\ UNCHANGED <<streamVars, cctx, default_initial_capacity, held, hist>>

DCtxDecompress == Decompress({NilInt})

DCtxDecompressWithCapacity == Decompress({NilInt} \cup 0..MaxCap)

NextOneShot ==
  \/ CCtxCompress
  \/ WriterFrame
  \/ PrependSkippable
  \/ ReadSkippableFrame
  \/ Truncate
  \/ DCtxDecompress

SpecOneShot == InitOneShot /\ [][NextOneShot]_vars

\* the values given to reset: nil, the three directives, two ints that are
\* no directive, an Integer too large for an int, and true
ResetModes == {Qnil, LongValue, Qtrue} \cup {INT2NUM(n) : n \in 0..4}

\* dctx.reset(reset_mode)
DCtxReset ==
  \E reset_mode \in ResetModes :
    LET Returned(r) ==
          /\ dctx' = r.dctx
          /\ last' = [op |-> "reset", reset_mode |-> reset_mode, ret |-> r.ret,
                      directive |-> r.directive]
    IN /\ Returned(vibe_zstd_dctx_reset(dctx, reset_mode))
       /\ UNCHANGED <<streamVars, cctx, default_initial_capacity, held, hist>>

\* sessions given frames of unknown content size, with the three levels of
\* initial capacity
NextCapacity ==
  \/ WriterFrame
  \/ SetInitialCapacity
  \/ SetDefaultInitialCapacity
  \/ DCtxDecompressWithCapacity
  \/ DCtxReset

SpecCapacity == InitOneShot /\ [][NextCapacity]_vars

(***************************************************************************)
(* Properties of the one-shot sessions.                                    *)
(***************************************************************************)
\* the caller holds what compress returned for held.plain, as returned, and
\* the pledged size, if one was given, was the length of held.plain
HoldsCompressed ==
  /\ held.kind = "oneshot"
  /\ held.skips = << >>
  /\ held.cut = 0
  /\ held.pledged_size \in {NilInt, Len(held.plain)}

\* C3: decompress of what compress returned for b returns b, for every b
\* including the empty one, with the same dictionary or none given to both
\* calls, with or without a pledged size equal to the length of b.
C3_OneShotRoundTrip ==
  (last.op = "decompress" /\ HoldsCompressed /\ last.dict = held.dict)
    => last.ret = RString(held.plain)

\* MaxData bytes compressed with a dictionary and a pledged size, and
\* decompressed with the dictionary
C3_Witness ==
  /\ last.op = "decompress"
  /\ HoldsCompressed
  /\ last.dict = held.dict /\ held.dict # 0
  /\ held.pledged_size = Len(held.plain)
  /\ Len(held.plain) = MaxData
  /\ last.ret = RString(held.plain)

\* the empty byte sequence compressed and decompressed without a dictionary
C3_WitnessEmpty ==
  /\ last.op = "decompress"
  /\ HoldsCompressed
  /\ last.dict = 0 /\ held.dict = 0
  /\ held.plain = << >>
  /\ last.ret = RString(<< >>)

\* C30: in decompress(data, dict: D) the engine decodes with D on the
\* known-size path and on the unknown-size path: of what a writer bound to D
\* wrote, like of what compress with D returned, the engine produces the
\* bytes that were written, and the call returns a String.
C30_DictionaryUsedOnBothPaths ==
  (/\ last.op = "decompress"
   /\ HoldsCompressed \/ (held.kind = "stream" /\ held.skips = << >> /\ held.cut = 0)
   /\ last.dict = held.dict)
    => IF last.report.unknown
       THEN last.ret.kind = "str" /\ last.report.produced = held.plain
       ELSE last.ret = RString(held.plain)

\* C7: a decompress that took the unknown-size path and returned a String
\* returned exactly the bytes the engine produced, in order, whatever the
\* resolved initial capacity.
C7_UnknownSizeReturnsProduced ==
  (last.op = "decompress" /\ last.report.unknown /\ last.ret.kind = "str")
    => last.ret.str = last.report.produced

\* C8: the starting capacity of an unknown-size decompress is the per-call
\* initial_capacity if given; else the value the session's initial_capacity
\* was set to, if it was set and not set back to nil; else the class default
\* if set; else the engine's recommended streaming output size.
C8_CapacityPrecedence ==
  (last.op = "decompress" /\ last.report.unknown)
    => last.report.initial_capacity =
         (IF last.per_call # NilInt THEN last.per_call
          ELSE IF hist.instance # 0 THEN hist.instance
          ELSE IF default_initial_capacity # 0 THEN default_initial_capacity
          ELSE ZSTD_DStreamOutSize)

\* C31: a session made without options, whose initial_capacity nothing has
\* been assigned to since (or nil last), stores 0 for it: initial_capacity
\* reads back as the process-wide default, and an unknown-size decompress
\* without a per-call capacity starts from the process-wide default or, that
\* being unset, from the engine's streaming output size.
C31_NewSessionHasNoCapacity ==
  hist.instance = 0 =>
    /\ dctx.initial_capacity = 0
    /\ vibe_zstd_dctx_get_initial_capacity(dctx, default_initial_capacity)
         = vibe_zstd_dctx_get_default_initial_capacity(default_initial_capacity)
    /\ (last.op = "decompress" /\ last.report.unknown /\ last.per_call = NilInt) =>
         last.report.initial_capacity =
           (IF default_initial_capacity # 0 THEN default_initial_capacity
            ELSE ZSTD_DStreamOutSize)

\* 2 to the power k
RECURSIVE PowerOfTwo(_)
PowerOfTwo(k) == IF k = 0 THEN 1 ELSE 2 * PowerOfTwo(k - 1)

\* C33: in the loop of the unknown-size path every capacity of the result
\* is the resolved initial capacity times a power of two, each capacity
\* after the first is larger than the one before, and at every copy
\* result_size + output.pos <= result_capacity, which the buffer has room
\* for.
C33_CapacityDoubles ==
  (last.op = "decompress" /\ last.report.unknown) =>
    LET capacities == last.report.capacities
        copies == last.report.copies
    IN /\ capacities[1] = last.report.initial_capacity
       /\ \A i \in 1..Len(capacities) :
            /\ \E k \in 0..(Len(last.report.produced) + 1) :
                 capacities[i] = last.report.initial_capacity * PowerOfTwo(k)
            /\ i > 1 => capacities[i] > capacities[i - 1]
       /\ \A i \in 1..Len(copies) :
            /\ copies[i].result_size + copies[i].pos <= copies[i].result_capacity
            /\ copies[i].result_capacity <= copies[i].room
            /\ copies[i].result_capacity \in {capacities[j] : j \in 1..Len(capacities)}

\* MaxData bytes decompressed from a capacity of 1, which was doubled twice
C33_Witness ==
  /\ last.op = "decompress" /\ last.report.unknown
  /\ last.ret.kind = "str"
  /\ last.report.capacities = << 1, 2, 4 >>
  /\ Len(last.report.copies) = 2
  /\ Len(last.report.produced) = MaxData

C37_WitnessInvalid ==
  /\ last.op = "reset" /\ last.ret = Raise("ArgumentError")
  /\ hist.instance # 0 /\ dctx.initial_capacity = hist.instance

\* C39: what decompress returns depends on the bytes given, the dictionary
\* and the parameters of the session, not on the calls the session has made
\* before: it is what the same call returns on a session with the same
\* parameters that has made no call.
C39_DecompressIgnoresHistory ==
  last.op = "decompress" => last.ret = last.alone

\* the bytes of skippable frames with contents of the lengths given
RECURSIVE SkippableBytes(_)
SkippableBytes(lens) ==
  IF lens = << >> THEN 0
  ELSE ZSTD_SKIPPABLEHEADERSIZE + Head(lens) + SkippableBytes(Tail(lens))

\* C9: with well-formed skippable frames in front of a frame, decompress
\* returns what it returns for the frame alone (same session, same options),
\* and its scan stops 8 + declared length bytes further per skippable frame.
C9_SkippableFramesSkipped ==
  [][(last'.op = "decompress" /\ held.kind # "none" /\ held.cut = 0) =>
       /\ last'.ret = vibe_zstd_dctx_decompress(dctx, default_initial_capacity, held.frame,
                                                last'.dict, last'.per_call, last'.env).ret
       /\ last'.report.offset = SkippableBytes(held.skips)]_vars

\* two skippable frames of different lengths in front of a frame of MaxData
\* bytes, which decompress returned
C9_Witness ==
  /\ last.op = "decompress"
  /\ held.kind # "none" /\ held.cut = 0
  /\ Len(held.skips) = 2 /\ held.skips[1] # held.skips[2]
  /\ Len(held.plain) = MaxData
  /\ last.ret = RString(held.plain)
  /\ last.report.offset = 2 * ZSTD_SKIPPABLEHEADERSIZE + 1

\* C10: decompress of an input that is empty or holds nothing but skippable
\* frames, whole or cut short, fails with InvalidFrame without a call of the
\* engine's decompression, and the scan's offset is at most the input's length.
C10_NoFrameFails ==
  (last.op = "decompress" /\ held.kind = "none")
    => /\ last.ret = Raise("InvalidFrame")
       /\ last.report.calls = 0
       /\ last.report.offset <= Len(held.bytes)

\* an input of two whole skippable frames: the scan reached its end
C10_Witness ==
  /\ last.op = "decompress"
  /\ held.kind = "none"
  /\ Len(held.skips) = 2 /\ held.cut = 0
  /\ last.report.offset = Len(held.bytes)
  /\ last.ret = Raise("InvalidFrame")

\* C11: decompress of a frame whose last byte is missing, made by compress or
\* by a writer, with or without skippable frames in front, fails: it never
\* returns a String, on the known-size path or on the unknown-size path.
C11_TruncatedFrameFails ==
  (last.op = "decompress" /\ held.kind # "none" /\ held.cut > 0)
    => last.ret.kind # "str"

C26_WitnessRefused ==
  /\ last.op = "skippable"
  /\ last.magic_number = 16
  /\ last.ret = Raise("ArgumentError")

\* the bytes of the reader's window that the engine has not consumed
Pending(d) == SubSeq(d.input, d.pos + 1, Len(d.input))

\* C34: the window of a reader has 0 <= input.pos <= input.size; a read
\* reads the source only with input.pos = input.size; and what was left of
\* the window before a read, followed by what the read got from the source,
\* is what the engine consumed during the read followed by what is left of
\* the window after it: the bytes left are fed first, and every byte of the
\* source is fed at most once and in the order of the source.
C34_PendingWindow ==
  /\ [](dstream.pos >= 0 /\ dstream.pos <= Len(dstream.input))
  /\ [][last'.op = "read" =>
          /\ \A i \in 1..Len(last'.pulled_at) :
               last'.pulled_at[i].pos = last'.pulled_at[i].size
          /\ Len(last'.pulled_at) = last'.pulls
          /\ Pending(dstream) \o SubSeq(source.data, source.rpos + 1, source'.rpos)
               = last'.consumed \o Pending(dstream')]_vars

\* a read that fed the engine bytes left in the window by an earlier read,
\* then read the source, and left bytes in the window again
C34_Witness ==
  /\ last.op = "read"
  /\ last.pulls > 0
  /\ last.pulled_at[1].fed > 0
  /\ Pending(dstream) # << >>

\* C36: read(0) on a reader that is not exhausted returns nil and sets eof,
\* without reading the source and without calling the engine, whatever is
\* left to decode; after a read(0) the reader is exhausted for good and every
\* read returns nil.
C36_ReadZeroExhausts ==
  /\ [][(last'.op = "read" /\ last'.arg = 0 /\ ~dstream.eof) =>
          /\ last'.ret = Qnil
          /\ dstream'.eof
          /\ last'.calls = 0 /\ last'.pulls = 0
          /\ source' = source
          /\ dstream' = [dstream EXCEPT !.eof = TRUE]]_vars
  /\ [](hist.zero => (dstream.eof /\ last.op = "read" /\ last.ret = Qnil))

\* the first read of a reader on a finished stream of some bytes was read(0)
C36_Witness ==
  /\ last.op = "read" /\ last.arg = 0 /\ last.ret = Qnil
  /\ hist.finishes > 0 /\ hist.written # << >>
  /\ hist.returned = << >> /\ ~hist.raised
  /\ source.rpos = 0 /\ Len(source.data) > 0
  /\ dstream.eof

\* C38: what the writer handed to the sink is not changed by the writer
\* afterwards: when a call of write, flush or finish has returned, every
\* object the sink was given in it holds the bytes it held when it was given.
C38_SinkKeepsWhatItWasGiven ==
  last.op \in {"write", "flush", "finish"} => last.kept = last.writes

(***************************************************************************)
(* A reader and the process-wide default of DCtx.                          *)
(***************************************************************************)
\* the state after the construction of a reader on a source that holds what
\* a writer sent to its sink for one write and finish
InitChunk ==
  \E data \in Payloads, ics \in 0..MaxChunkSize, chunk \in 1..ZSTD_DStreamInSize :
    LET Finished(fin) ==
          /\ cstream = fin.zc
          /\ sink = Flatten(fin.writes)
          /\ source = [data |-> Flatten(fin.writes), rpos |-> 0, chunk |-> chunk]
        Written(w) == Finished(vibe_zstd_writer_finish(w.zc, w.writes, w.outs))
    IN /\ Written(vibe_zstd_writer_write(ZSTD_createCStream(0), data, 0, << >>, << >>))
       /\ dstream = vibe_zstd_reader_initialize(0, ics)
       /\ hist = [phase |-> "reading", written |-> data, wcalls |-> 2, finishes |-> 1,
                  late |-> FALSE, flushed |-> FALSE, resumed |-> FALSE,
                  returned |-> << >>, eos |-> FALSE, raised |-> FALSE, zero |-> FALSE]
       /\ last = [NoCall EXCEPT !.op = "new"]
       /\ cctx = ZSTD_createCCtx
       /\ dctx = vibe_zstd_dctx_alloc(0)
       /\ default_initial_capacity = 0
       /\ held = NothingHeld

NextChunk == SetDefaultInitialCapacity \/ ReaderRead

SpecChunk == InitChunk /\ [][NextChunk]_vars

\* C18 as stated: a read without a size asks for the reader's
\* initial_chunk_size if set, else for the process-wide default if set, else
\* for the engine's recommended streaming output size.
C18_DefaultChunkSizeProcessWide ==
  (last.op = "read" /\ last.arg = NilInt /\ last.requested # NilInt) =>
    last.requested = (IF dstream.initial_chunk_size > 0 THEN dstream.initial_chunk_size
                      ELSE IF default_initial_capacity # 0 THEN default_initial_capacity
                      ELSE ZSTD_DStreamOutSize)

\* C18: a read without a size asks for the reader's initial_chunk_size if
\* set, else for the engine's recommended streaming output size, whatever the
\* process-wide default of DCtx is; it returns no more bytes than that.
C18_DefaultChunkSize ==
  (last.op = "read" /\ last.arg = NilInt /\ last.requested # NilInt) =>
    /\ last.requested = (IF dstream.initial_chunk_size > 0 THEN dstream.initial_chunk_size
                         ELSE ZSTD_DStreamOutSize)
    /\ Len(last.ret.str) <= last.requested

\* with the process-wide default set to 1 and no initial_chunk_size, a read
\* without a size returned the engine's recommended size in bytes
C18_Witness ==
  /\ last.op = "read" /\ last.arg = NilInt
  /\ dstream.initial_chunk_size = 0
  /\ default_initial_capacity = 1
  /\ Len(last.ret.str) = ZSTD_DStreamOutSize

\* with initial_chunk_size 1, a read without a size returned one byte of two
C18_WitnessOwn ==
  /\ last.op = "read" /\ last.arg = NilInt
  /\ dstream.initial_chunk_size = 1
  /\ Len(last.ret.str) = 1
  /\ Len(hist.written) >= 2 /\ hist.returned = << hist.written[1] >>

(***************************************************************************)
(* Sessions whose parameters are set and whose bounds are asked for.       *)
(***************************************************************************)
\* calls made on the parameters of the sessions
MaxParamCalls == 2

\* the names asked for: the entries of both tables, aliases of accessors,
\* and names that differ from an entry in case or by a character
ProbedNames ==
  {cctx_param_table[i].name : i \in 1..Len(cctx_param_table)}
    \cup {dctx_param_table[i].name : i \in 1..Len(dctx_param_table)}
    \cup {"level", "checksum", "max_window_log", "Compression_Level", "compression_level=",
          "window", ""}

\* the values given to a setter of a parameter with the bounds
SetValues(bounds) ==
  {Succ(bounds.upperBound), INT2NUM(bounds.upperBound), INT2NUM(bounds.lowerBound),
   INT2NUM(bounds.lowerBound - 1), LongValue, Qtrue, Qfalse, Qnil, RString(<< >>)}

\* new sessions, in a build of the engine with multithreading or without
InitParam ==
  /\ cstream = ZSTD_createCStream(0)
  /\ sink = << >>
  /\ dstream = vibe_zstd_reader_initialize(0, 0)
  /\ source = [data |-> << >>, rpos |-> 0, chunk |-> 1]
  /\ cctx = ZSTD_createCCtx
  /\ dctx = vibe_zstd_dctx_alloc(0)
  /\ default_initial_capacity = 0
  /\ held = NothingHeld
  /\ \E multithread \in BOOLEAN : hist = [calls |-> 0, multithread |-> multithread]
  /\ last = [op |-> "none"]

\* cctx.name = value
CCtxSetParam ==
  \E i \in 1..Len(cctx_param_table) :
    \E value \in SetValues(ZSTD_cParam_getBounds(cctx_param_table[i].param,
                                                 hist.multithread)) :
      LET Returned(r) ==
            /\ cctx' = [cctx EXCEPT !.params = r.params]
            /\ last' = [op |-> "set", session |-> "cctx", name |-> cctx_param_table[i].name,
                        value |-> value, ret |-> r.ret, engine |-> r.engine]
      IN /\ hist.calls < MaxParamCalls
         /\ Returned(vibe_zstd_cctx_set(cctx.params, cctx_param_table[i].name, value,
                                        hist.multithread))
         /\ hist' = [hist EXCEPT !.calls = @ + 1]
         /\ UNCHANGED <<streamVars, dctx, default_initial_capacity, held>>

\* dctx.window_log_max = value
DCtxSetParam ==
  \E value \in SetValues(ZSTD_dParam_getBounds("ZSTD_d_windowLogMax")) :
    LET Returned(r) ==
          /\ dctx' = [dctx EXCEPT !.dctx = r.z]
          /\ last' = [op |-> "set", session |-> "dctx", name |-> "window_log_max",
                      value |-> value, ret |-> r.ret, engine |-> r.engine]
    IN /\ hist.calls < MaxParamCalls
       /\ Returned(vibe_zstd_dctx_set_param_generic(dctx.dctx, value))
       /\ hist' = [hist EXCEPT !.calls = @ + 1]
       /\ UNCHANGED <<streamVars, cctx, default_initial_capacity, held>>

\* CCtx.parameter_bounds(name)
CCtxParameterBounds ==
  \E name \in ProbedNames :
    /\ hist.calls < MaxParamCalls
    /\ hist' = [hist EXCEPT !.calls = @ + 1]
    /\ last' = [op |-> "bounds", session |-> "cctx", name |-> name,
                ret |-> vibe_zstd_cctx_parameter_bounds(name, hist.multithread)]
    /\ UNCHANGED <<streamVars, sessionVars>>

\* DCtx.parameter_bounds(name)
DCtxParameterBounds ==
  \E name \in ProbedNames :
    /\ hist.calls < MaxParamCalls
    /\ hist' = [hist EXCEPT !.calls = @ + 1]
    /\ last' = [op |-> "bounds", session |-> "dctx", name |-> name,
                ret |-> vibe_zstd_dctx_parameter_bounds(name)]
    /\ UNCHANGED <<streamVars, sessionVars>>

\* the names given as keys of an option map and as names of setters
OptionKeys == ProbedNames \cup DOMAIN cctx_setters \cup DOMAIN dctx_setters

\* the values given with them
OptionValues == {INT2NUM(1), INT2NUM(20)}

\* CCtx.new(key: value): a new session, unless a setter raises
CCtxInitialize ==
  \E key \in OptionKeys, value \in OptionValues :
    LET Returned(r) ==
          /\ cctx' = IF r.ret = Self THEN [ZSTD_createCCtx EXCEPT !.params = r.params]
                     ELSE cctx
          /\ last' = [op |-> "new", session |-> "cctx", name |-> key, value |-> value,
                      ret |-> r.ret]
    IN /\ hist.calls < MaxParamCalls
       /\ Returned(vibe_zstd_cctx_init_param_iter(ZSTD_createCCtx.params, key, value,
                                                  hist.multithread))
       /\ hist' = [hist EXCEPT !.calls = @ + 1]
       /\ UNCHANGED <<streamVars, dctx, default_initial_capacity, held>>

\* DCtx.new(key: value)
DCtxInitialize ==
  \E key \in OptionKeys, value \in OptionValues :
    LET Returned(r) ==
          /\ dctx' = IF r.ret = Self THEN r.dctx ELSE dctx
          /\ last' = [op |-> "new", session |-> "dctx", name |-> key, value |-> value,
                      ret |-> r.ret]
    IN /\ hist.calls < MaxParamCalls
       /\ Returned(vibe_zstd_dctx_init_param_iter(vibe_zstd_dctx_alloc(0), key, value))
       /\ hist' = [hist EXCEPT !.calls = @ + 1]
       /\ UNCHANGED <<streamVars, cctx, default_initial_capacity, held>>

\* cctx.key = value, for a name that the session may have no setter of
CCtxSend ==
  \E key \in OptionKeys, value \in OptionValues :
    LET Returned(r) ==
          /\ cctx' = [cctx EXCEPT !.params = r.params]
          /\ last' = [op |-> "send", session |-> "cctx", name |-> key, value |-> value,
                      ret |-> r.ret]
    IN /\ hist.calls < MaxParamCalls
       /\ Returned(vibe_zstd_cctx_init_param_iter(cctx.params, key, value, hist.multithread))
       /\ hist' = [hist EXCEPT !.calls = @ + 1]
       /\ UNCHANGED <<streamVars, dctx, default_initial_capacity, held>>

\* cctx.compress(data) and cctx.compress(data, level: level), no dictionary
CCtxCompressWithLevel ==
  \E data \in Payloads, level \in {Qnil, INT2NUM(1), INT2NUM(19), LongValue} :
    LET Returned(r) ==
          /\ cctx' = r.cctx
          /\ last' = [op |-> "compress", session |-> "cctx", data |-> data, level |-> level,
                      ret |-> r.ret, compressionLevel |-> r.compressionLevel,
                      engine |-> r.nogvl]
    IN /\ hist.calls < MaxParamCalls
       /\ Returned(vibe_zstd_cctx_compress(cctx, data, level, 0, NilInt))
       /\ hist' = [hist EXCEPT !.calls = @ + 1]
       /\ UNCHANGED <<streamVars, dctx, default_initial_capacity, held>>

NextParam ==
  \/ CCtxSetParam
  \/ DCtxSetParam
  \/ CCtxParameterBounds
  \/ DCtxParameterBounds
  \/ CCtxInitialize
  \/ DCtxInitialize
  \/ CCtxSend
  \/ CCtxCompressWithLevel

SpecParam == InitParam /\ [][NextParam]_vars

(***************************************************************************)
(* Properties of the parameters.                                           *)
(***************************************************************************)
\* whether the accessors of the parameter a call named are the boolean ones
IsBoolean(call) == call.session = "cctx" /\ call.name \in CCTX_PARAM_BOOL_ACCESSORS

\* the bounds the engine reports for the parameter a call named
ReportedBounds(call) ==
  IF call.session = "cctx"
  THEN ZSTD_cParam_getBounds(
         (CHOOSE e \in {cctx_param_table[i] : i \in 1..Len(cctx_param_table)} :
            e.name = call.name).param, hist.multithread)
  ELSE ZSTD_dParam_getBounds("ZSTD_d_windowLogMax")

\* what every parameter of both sessions reads as
AllGets(c, d) ==
  [n \in {cctx_param_table[i].name : i \in 1..Len(cctx_param_table)} \cup {"window_log_max"} |->
     IF n = "window_log_max" THEN vibe_zstd_dctx_get_param_generic(d.dctx)
     ELSE vibe_zstd_cctx_get(c.params, n)]

C4_WitnessInteger ==
  /\ last.op = "set"
  /\ last.name = "window_log"
  /\ last.value = Succ(ReportedBounds(last).upperBound)
  /\ last.ret = Raise("OutOfBounds")

\* the int a setter makes of the value of a call, where it makes one
Coerced(call) ==
  IF IsBoolean(call)
  THEN IF call.value.kind = "int" THEN (IF call.value.int # 0 THEN 1 ELSE 0)
       ELSE (IF call.value.kind = "true" THEN 1 ELSE 0)
  ELSE call.value.int

\* the setter of a call makes an int of its value, one outside of the bounds
CoercedOutside(call) ==
  /\ call.value.kind # "long"
  /\ IsBoolean(call) \/ call.value.kind = "int"
  /\ \/ Coerced(call) < ReportedBounds(call).lowerBound
     \/ Coerced(call) > ReportedBounds(call).upperBound

\* C5: a set whose coerced value is outside of the reported bounds fails with
\* OutOfBounds, the engine is not asked to set the parameter, and every
\* parameter of the sessions reads as it did before the call.
C5_RejectedBeforeEngine ==
  [][(last'.op = "set" /\ hist'.calls = hist.calls + 1 /\ CoercedOutside(last')) =>
       /\ last'.ret = Raise("OutOfBounds")
       /\ ~last'.engine
       /\ AllGets(cctx', dctx') = AllGets(cctx, dctx)]_vars

\* a set was rejected on a session one of whose parameters had been set
C5_Witness ==
  /\ last.op = "set"
  /\ CoercedOutside(last)
  /\ last.ret = Raise("OutOfBounds")
  /\ hist.calls = 2
  /\ AllGets(cctx, dctx) # AllGets(ZSTD_createCCtx, vibe_zstd_dctx_alloc(0))

\* C6: bounds(name) fails with UnknownParameter for every name that no entry
\* of the session type's table has, and returns min and max for every name
\* an entry has; names are the same only if they are equal.
C6_BoundsLookup ==
  last.op = "bounds" =>
    LET table == IF last.session = "cctx" THEN cctx_param_table ELSE dctx_param_table
    IN IF \E i \in 1..Len(table) : table[i].name = last.name
       THEN last.ret.kind = "bounds" /\ last.ret.min <= last.ret.max
       ELSE last.ret = UnknownParameter

\* the alias level of the accessor compression_level is not a parameter
C6_Witness ==
  /\ last.op = "bounds"
  /\ last.session = "cctx"
  /\ last.name = "level"
  /\ last.ret = UnknownParameter

\* the one entry of the other table is found there and only there
C6_WitnessFound ==
  /\ last.op = "bounds"
  /\ last.session = "dctx"
  /\ last.name = "window_log_max"
  /\ last.ret = BoundsHash(ZSTD_dParam_getBounds("ZSTD_d_windowLogMax"))

\* C27: for every boolean parameter, set makes 1 of a nonzero Integer and of
\* a truthy value and 0 of the Integer zero, false and nil, and raises only
\* where that 0 or 1 is outside of the bounds; after a set that succeeded,
\* get returns true exactly if the value was a nonzero Integer or truthy.
C27_BooleanCoercion ==
  (last.op = "set" /\ IsBoolean(last)) =>
    LET one == IF FIXNUM_P(last.value) THEN last.value # INT2NUM(0)
               ELSE last.value.kind \notin {"false", "nil"}
        val == IF one THEN 1 ELSE 0
    IN /\ last.ret = IF \/ val < ReportedBounds(last).lowerBound
                        \/ val > ReportedBounds(last).upperBound
                     THEN Raise("OutOfBounds") ELSE Self
       /\ last.ret = Self =>
            vibe_zstd_cctx_get(cctx.params, last.name) = (IF one THEN Qtrue ELSE Qfalse)

\* the names of the entries of the table of a session type
TableNames(session) ==
  IF session = "cctx" THEN {cctx_param_table[i].name : i \in 1..Len(cctx_param_table)}
  ELSE {dctx_param_table[i].name : i \in 1..Len(dctx_param_table)}

\* what bounds(name) returns for a session type
BoundsOf(session, name) ==
  IF session = "cctx" THEN vibe_zstd_cctx_parameter_bounds(name, hist.multithread)
  ELSE vibe_zstd_dctx_parameter_bounds(name)

\* a call that gave a name to a session found a setter of that name
Accepted(call) == call.op \in {"new", "send"} /\ call.ret # Raise("NoMethodError")

C28_WitnessEntry ==
  /\ last = [op |-> "new", session |-> "cctx", name |-> "window_log", value |-> INT2NUM(20),
             ret |-> Self]
  /\ vibe_zstd_cctx_get(cctx.params, "window_log") = INT2NUM(20)

\* C29: the level a one-shot compress without a dictionary gives to the
\* engine is the level of the call where one is given and the
\* compression_level of the session otherwise, and the level of a call
\* leaves the compression_level of the session as it was.
C29_LevelGivenToEngine ==
  [][(last'.op = "compress" /\ hist'.calls = hist.calls + 1 /\ last'.engine) =>
       /\ last'.compressionLevel =
            IF last'.level # Qnil THEN last'.level.int
            ELSE vibe_zstd_cctx_get(cctx.params, "compression_level").int
       /\ cctx'.params = cctx.params]_vars

(***************************************************************************)
(* Threads and the scheduler lock (GVL).  The main thread calls the        *)
(* sessions, a writer or a reader; a second thread, when it can run,       *)
(* changes the String the main thread passes as data.  hist holds, besides *)
(* the fields of a stream,                                                 *)
(*   mode    what the main thread calls: a session, a writer or a reader   *)
(*   pc      where the main thread is in a one-shot call: idle (in none),  *)
(*           bulk (before rb_thread_call_without_gvl), engine (inside the  *)
(*           engine call), locked (back, result not yet looked at)         *)
(*   gvl     main when the main thread holds the lock, else released       *)
(*   tcalls  one-shot calls begun                                          *)
(*   others  steps the second thread has taken                             *)
(*   args    the compress_args / decompress_args of the call: the source   *)
(*           bytes when src was taken, the steps of the second thread      *)
(*           while the engine ran, what the handler goes on to return      *)
(* and last holds, of a one-shot call that returned: in calls the engine   *)
(* calls it made with the lock held, in pulls those it made with the lock  *)
(* released, in arg the steps the second thread took meanwhile.            *)
(***************************************************************************)
\* one-shot calls the main thread begins
MaxThreadCalls == 2

\* steps of the second thread
MaxOtherSteps == 2

\* the state after the construction of the sessions, of a writer and of a
\* reader whose source holds a finished frame; the caller's String is a
\* payload, what compress returns for one, or what a writer sends for one
InitThread ==
  \E data \in Payloads, mode \in {"session", "writer", "reader"},
     made \in {"plain", "oneshot", "stream"} :
    LET Finished(fin) ==
          /\ source = [data |-> Flatten(fin.writes), rpos |-> 0, chunk |-> ZSTD_DStreamInSize]
          /\ held = [NothingHeld EXCEPT
                       !.bytes = CASE made = "plain" -> data
                                   [] made = "oneshot" -> CompressFrame(data, 0)
                                   [] OTHER -> Flatten(fin.writes),
                       !.plain = data, !.kind = made]
        Written(w) == Finished(vibe_zstd_writer_finish(w.zc, w.writes, w.outs))
    IN /\ Written(vibe_zstd_writer_write(ZSTD_createCStream(0), data, 0, << >>, << >>))
       /\ mode # "session" => made = "plain"
       /\ mode = "writer" => data = << >>
       /\ cstream = ZSTD_createCStream(0)
       /\ sink = << >>
       /\ dstream = vibe_zstd_reader_initialize(0, 0)
       /\ hist = [phase |-> IF mode = "reader" THEN "reading" ELSE "writing",
                  written |-> << >>, wcalls |-> 0, finishes |-> 0,
                  late |-> FALSE, flushed |-> FALSE, resumed |-> FALSE,
                  returned |-> << >>, eos |-> FALSE, raised |-> FALSE, zero |-> FALSE,
                  mode |-> mode, pc |-> "idle", gvl |-> "main", tcalls |-> 0, others |-> 0,
                  args |-> [op |-> "none", src |-> << >>, during |-> 0, r |-> Qnil]]
       /\ last = NoCall
       /\ cctx = ZSTD_createCCtx
       /\ dctx = vibe_zstd_dctx_alloc(0)
       /\ default_initial_capacity = 0

\* compress releasing the lock before it sizes and allocates its result
ThreadCompressBegin_unlocked ==
  /\ hist.mode = "session" /\ hist.pc = "idle" /\ hist.gvl = "main"
  /\ hist.tcalls < MaxThreadCalls
  /\ hist' = [hist EXCEPT !.pc = "bulk", !.gvl = "released", !.tcalls = @ + 1,
                          !.args = [op |-> "compress", src |-> held.bytes, during |-> 0,
                                    r |-> Qnil]]
  /\ last' = [NoCall EXCEPT !.op = "begin"]
  /\ UNCHANGED <<streamVars, sessionVars>>

\* cctx.compress(held.bytes) up to its call of rb_thread_call_without_gvl:
\* options, the pledged size, ZSTD_compressBound and rb_str_new, then src and
\* dst are put in args; the lock is held
ThreadCompressBegin ==
  /\ hist.mode = "session" /\ hist.pc = "idle" /\ hist.gvl = "main"
  /\ hist.tcalls < MaxThreadCalls
  /\ hist' = [hist EXCEPT !.pc = "bulk", !.tcalls = @ + 1,
                          !.args = [op |-> "compress", src |-> held.bytes, during |-> 0,
                                    r |-> Qnil]]
  /\ last' = [NoCall EXCEPT !.op = "begin"]
  /\ UNCHANGED <<streamVars, sessionVars>>

\* dctx.decompress(held.bytes): the scan, the options and the capacity; a
\* frame of unknown content size is then decompressed by the loop of
\* ZSTD_decompressStream calls and the call returns, the lock held all
\* along; a frame of known size is left before rb_thread_call_without_gvl
ThreadDecompressBegin ==
  \E junk \in JunkBytes :
    LET Begun(r) ==
          IF r.report.nogvl
          THEN /\ hist' = [hist EXCEPT !.pc = "bulk", !.tcalls = @ + 1,
                                       !.args = [op |-> "decompress", src |-> held.bytes,
                                                 during |-> 0, r |-> Qnil]]
               /\ last' = [NoCall EXCEPT !.op = "begin"]
               /\ dctx' = dctx
          ELSE /\ hist' = [hist EXCEPT !.tcalls = @ + 1]
               /\ last' = [NoCall EXCEPT !.op = "decompress", !.ret = r.ret,
                                           !.calls = r.report.calls]
               /\ dctx' = r.dctx
    IN /\ hist.mode = "session" /\ hist.pc = "idle" /\ hist.gvl = "main"
       /\ hist.tcalls < MaxThreadCalls
       /\ Begun(vibe_zstd_dctx_decompress(dctx, default_initial_capacity, held.bytes, 0,
                                          NilInt, [junk |-> junk]))
       /\ UNCHANGED <<streamVars, cctx, default_initial_capacity, held>>

\* rb_thread_call_without_gvl releasing the lock before it calls
\* compress_without_gvl or decompress_without_gvl
ThreadCallWithoutGVL ==
  /\ hist.pc = "bulk"
  /\ hist' = [hist EXCEPT !.pc = "engine", !.gvl = "released"]
  /\ last' = [NoCall EXCEPT !.op = "release"]
  /\ UNCHANGED <<streamVars, sessionVars>>

\* the second thread runs when the lock is free, or between two calls of the
\* main thread, and sets a byte of the caller's String or clears it; nothing
\* in compress or decompress keeps it from that String
OtherThreadStep ==
  \E bytes \in IF held.bytes = << >> THEN {}
                ELSE {<< >>} \cup {[held.bytes EXCEPT ![1] = b] : b \in DataByte} :
    /\ hist.gvl = "released" \/ hist.pc = "idle"
    /\ hist.others < MaxOtherSteps
    /\ bytes # held.bytes
    /\ held' = [held EXCEPT !.bytes = bytes]
    /\ hist' = [hist EXCEPT !.others = @ + 1,
                            !.args.during = IF hist.pc = "engine" THEN @ + 1 ELSE @]
    /\ last' = [NoCall EXCEPT !.op = "other"]
    /\ UNCHANGED <<streamVars, cctx, dctx, default_initial_capacity>>

\* compress_without_gvl or decompress_without_gvl returns and
\* rb_thread_call_without_gvl takes the lock again.  The engine read the
\* bytes at src while the lock was free: the bytes that were there when the
\* call began or, if the second thread changed the String meanwhile, those
\* or the ones that are there now
ThreadEngineReturn ==
  \E seen \in {hist.args.src} \cup (IF hist.args.during > 0 THEN {held.bytes} ELSE {}),
     junk \in JunkBytes :
    LET Returned(r) ==
          /\ hist' = [hist EXCEPT !.pc = "locked", !.gvl = "main", !.args.r = r]
    IN /\ hist.pc = "engine"
       /\ Returned(IF hist.args.op = "compress"
                   THEN vibe_zstd_cctx_compress(cctx, seen, Qnil, 0, NilInt)
                   ELSE vibe_zstd_dctx_decompress(dctx, default_initial_capacity, seen, 0,
                                                  NilInt, [junk |-> junk]))
       /\ last' = [NoCall EXCEPT !.op = "acquire"]
       /\ UNCHANGED <<streamVars, sessionVars>>

\* the rest of compress or decompress: the test of the engine's result,
\* rb_str_set_len and the return
ThreadEpilogue ==
  /\ hist.pc = "locked"
  /\ hist' = [hist EXCEPT !.pc = "idle",
                          !.args = [op |-> "none", src |-> << >>, during |-> 0, r |-> Qnil]]
  /\ last' = [NoCall EXCEPT !.op = hist.args.op, !.ret = hist.args.r.ret, !.pulls = 1,
                        !.arg = hist.args.during]
  /\ cctx' = IF hist.args.op = "compress" THEN hist.args.r.cctx ELSE cctx
  /\ dctx' = IF hist.args.op = "decompress" THEN hist.args.r.dctx ELSE dctx
  /\ UNCHANGED <<streamVars, default_initial_capacity, held>>

NextThread ==
  \/ ThreadCompressBegin
  \/ ThreadDecompressBegin
  \/ ThreadCallWithoutGVL
  \/ OtherThreadStep
  \/ ThreadEngineReturn
  \/ ThreadEpilogue
  \/ (hist.mode = "writer" /\ hist.wcalls < MaxThreadCalls /\ WriterWrite)
  \/ (hist.mode = "writer" /\ hist.wcalls < MaxThreadCalls /\ WriterFlush)
  \/ (hist.mode = "writer" /\ hist.wcalls < MaxThreadCalls /\ WriterFinish)
  \/ (hist.mode = "reader" /\ ReaderRead)

SpecThread == InitThread /\ [][NextThread]_vars

(***************************************************************************)
(* Properties of the threads.                                              *)
(***************************************************************************)
StreamingOps == {"write", "flush", "finish", "read"}

OneShotOps == {"compress", "decompress"}

\* C21: in a one-shot compress or decompress the lock is released only
\* while the main thread is inside the bulk engine call: it is held while the
\* options are read and the result is sized and allocated, and held again
\* before the result is looked at and the call returns; the second thread
\* steps during a call only while that engine call runs.  A write, flush,
\* finish or read of a stream is made with the lock held from its first
\* statement to its last, the second thread taking no step meanwhile.
C21_LockReleasedOnlyAroundBulkCall ==
  [][/\ (hist'.gvl = "released") <=> (hist'.pc = "engine")
     /\ last'.op \in OneShotOps =>
          /\ hist.gvl = "main" /\ hist'.gvl = "main"
          /\ last'.arg > 0 => last'.pulls = 1
     /\ last'.op \in StreamingOps =>
          /\ hist.gvl = "main" /\ hist'.gvl = "main"
          /\ hist'.others = hist.others]_vars

\* a compress returned a String after the second thread had taken a step
\* while the engine ran
C21_Witness ==
  /\ last.op = "compress"
  /\ last.arg > 0 /\ last.pulls = 1
  /\ last.ret.kind = "str"
  /\ hist.gvl = "main"

\* a read of a reader returned bytes, after a step of the second thread
C21_WitnessStream ==
  /\ last.op = "read"
  /\ last.ret.kind = "str" /\ last.ret.str # << >>
  /\ hist.others > 0
  /\ hist.gvl = "main"

\* C22: every engine call of a one-shot compress or decompress, on the
\* known-size path and on the unknown-size path alike, is made with the lock
\* released.
C22_EngineCallsUnlocked == last.op \in OneShotOps => last.calls = 0

\* C23: while a one-shot call runs with the lock released, the String whose
\* bytes the engine reads is not changed by the second thread.
C23_BuffersUntouchedWhileUnlocked ==
  [][hist.gvl = "released" => held'.bytes = held.bytes]_vars

(***************************************************************************)
(* Objects, engine handles and the collector.  hist holds                  *)
(*   heap   the engine handles created so far: what created each and how   *)
(*          many times it was destroyed; a handle is its index, 0 is NULL  *)
(*   objs   the session, the dictionary and the stream (a writer or a      *)
(*          reader) the caller allocated: the handle in the object's       *)
(*          struct, whether the caller still refers to the object, whether *)
(*          the collector has reclaimed it                                 *)
(*   refd   the dictionary handle the stream's engine session refers to    *)
(***************************************************************************)
\* engine handles created
MaxHandles == 4

\* vibe_zstd_cctx_alloc / vibe_zstd_dctx_alloc create the session's handle;
\* the allocators of dictionaries and of streams leave NULL in the struct
InitLifetime ==
  /\ cstream = ZSTD_createCStream(0)
  /\ sink = << >>
  /\ dstream = vibe_zstd_reader_initialize(0, 0)
  /\ source = [data |-> << >>, rpos |-> 0, chunk |-> 1]
  /\ cctx = ZSTD_createCCtx
  /\ dctx = vibe_zstd_dctx_alloc(0)
  /\ default_initial_capacity = 0
  /\ held = NothingHeld
  /\ \E kind \in {"writer", "reader"} :
       hist = [kind |-> kind,
               heap |-> << [owner |-> "session", frees |-> 0] >>,
               objs |-> [o \in {"session", "dict", "stream", "prefix"} |->
                           [handle |-> IF o = "session" THEN 1 ELSE 0, ref |-> TRUE,
                            reclaimed |-> FALSE]],
               refd |-> 0,
               string |-> << 0 >>,
               prefix |-> [registered |-> FALSE, bytes |-> << >>]]
  /\ last = [op |-> "none"]

\* vibe_zstd_cdict_initialize / vibe_zstd_ddict_initialize, run by new or
\* once more by the caller: the handle ZSTD_createCDict / ZSTD_createDDict
\* returns, or NULL, is stored over what the struct held
DictInitialize ==
  \E created \in BOOLEAN :
    /\ hist.objs["dict"].ref
    /\ Len(hist.heap) < MaxHandles
    /\ hist' = [hist EXCEPT
                  !.heap = IF created THEN Append(@, [owner |-> "dict", frees |-> 0]) ELSE @,
                  !.objs["dict"].handle = IF created THEN Len(hist.heap) + 1 ELSE 0]
    /\ last' = [op |-> "dict_initialize", raised |-> ~created]
    /\ UNCHANGED <<streamVars, sessionVars>>

\* vibe_zstd_writer_initialize / vibe_zstd_reader_initialize, run by new or
\* once more by the caller, with the dictionary or without: the handle
\* ZSTD_createCStream / ZSTD_createDStream returns, or NULL, is stored over
\* what the struct held; the engine session is then told to refer to the
\* dictionary's handle, unless a statement in between raises.  The
\* dictionary object is stored nowhere
StreamInitialize ==
  \E dict \in BOOLEAN, raises \in {"create", "reset", "none"} :
    /\ hist.objs["stream"].ref
    /\ dict => hist.objs["dict"].ref
    /\ Len(hist.heap) < MaxHandles
    /\ hist' = [hist EXCEPT
                  !.heap = IF raises # "create"
                           THEN Append(@, [owner |-> "stream", frees |-> 0]) ELSE @,
                  !.objs["stream"].handle = IF raises # "create" THEN Len(hist.heap) + 1
                                            ELSE 0,
                  !.refd = IF raises = "none" /\ dict THEN hist.objs["dict"].handle ELSE 0]
    /\ last' = [op |-> "stream_initialize", raised |-> raises # "none"]
    /\ UNCHANGED <<streamVars, sessionVars>>

\* the caller gives up its reference to an object
DropReference ==
  \E o \in DOMAIN hist.objs :
    /\ hist.objs[o].ref
    /\ hist' = [hist EXCEPT !.objs[o].ref = FALSE]
    /\ last' = [op |-> "drop", owner |-> o]
    /\ UNCHANGED <<streamVars, sessionVars>>

\* the collector reclaims an object nothing refers to: a stream's mark
\* function marks its io (and input_data) only, the types of sessions and
\* dictionaries have none.  The free function of the type destroys the handle
\* in the struct, if there is one
Collect ==
  \E o \in DOMAIN hist.objs :
    /\ ~hist.objs[o].ref /\ ~hist.objs[o].reclaimed
    /\ hist' = [hist EXCEPT
                  !.objs[o].reclaimed = TRUE,
                  !.heap = IF hist.objs[o].handle # 0
                           THEN [@ EXCEPT ![hist.objs[o].handle].frees = @ + 1] ELSE @]
    /\ last' = [op |-> "free", owner |-> o]
    /\ UNCHANGED <<streamVars, sessionVars>>

\* a write, flush or finish of the writer, or a read of the reader: an engine
\* call on the stream's handle, which uses the dictionary the session refers
\* to; with that dictionary destroyed the call reads freed memory and
\* anything may come of it
StreamCall ==
  \E outcome \in {"done", "garbage", "fault"} :
    /\ hist.objs["stream"].ref
    /\ hist.objs["stream"].handle # 0
    /\ outcome # "done" => (hist.refd # 0 /\ hist.heap[hist.refd].frees > 0)
    /\ last' = [op |-> "call", outcome |-> outcome]
    /\ UNCHANGED <<streamVars, sessionVars, hist>>

\* session.use_prefix(prefix_data) with the String the caller holds:
\* ZSTD_CCtx_refPrefix / ZSTD_DCtx_refPrefix keep the address and the length
\* of the String's bytes for the next operation; the String is stored
\* nowhere and is neither copied nor frozen
UsePrefix ==
  /\ hist.objs["session"].ref
  /\ hist.objs["prefix"].ref
  /\ hist' = [hist EXCEPT !.prefix = [registered |-> TRUE, bytes |-> hist.string]]
  /\ last' = [op |-> "use_prefix"]
  /\ UNCHANGED <<streamVars, sessionVars>>

\* the caller changes the bytes of the String it holds, in place
MutatePrefix ==
  \E b \in DataByte :
    /\ hist.objs["prefix"].ref
    /\ hist.string # << b >>
    /\ hist' = [hist EXCEPT !.string = << b >>]
    /\ last' = [op |-> "mutate"]
    /\ UNCHANGED <<streamVars, sessionVars>>

\* the next compress or decompress of the session: the engine reads the
\* window at the address it kept, which holds what the String holds now,
\* or, the String reclaimed, freed memory of which anything may come; the
\* engine forgets the prefix after the operation
SessionOperation ==
  \E window \in {<< b >> : b \in DataByte} \cup {<< >>} :
    /\ hist.objs["session"].ref
    /\ window = << >> <=> ~hist.prefix.registered
    /\ (hist.prefix.registered /\ ~hist.objs["prefix"].reclaimed) => window = hist.string
    /\ hist' = [hist EXCEPT !.prefix = [registered |-> FALSE, bytes |-> << >>]]
    /\ last' = [op |-> "operation", registered |-> hist.prefix.bytes, window |-> window,
                reclaimed |-> hist.prefix.registered /\ hist.objs["prefix"].reclaimed]
    /\ UNCHANGED <<streamVars, sessionVars>>

NextLifetime ==
  \/ DictInitialize
  \/ StreamInitialize
  \/ DropReference
  \/ Collect
  \/ StreamCall
  \/ UsePrefix
  \/ MutatePrefix
  \/ SessionOperation

SpecLifetime == InitLifetime /\ [][NextLifetime]_vars

(***************************************************************************)
(* Properties of the objects' lifetimes.                                   *)
(***************************************************************************)
\* C24: as long as the caller can make an engine call on a stream, the
\* handle of the dictionary its session refers to has not been destroyed,
\* whether or not the caller still refers to the dictionary.
C24_BoundDictionaryAlive ==
  (hist.objs["stream"].ref /\ hist.objs["stream"].handle # 0 /\ hist.refd # 0)
    => hist.heap[hist.refd].frees = 0

\* C25: no engine handle is destroyed twice, and once every owner is
\* reclaimed every handle created has been destroyed, also when an initialize
\* raised part-way or ran more than once.
C25_HandlesDestroyedOnce ==
  /\ \A h \in 1..Len(hist.heap) : hist.heap[h].frees <= 1
  /\ (\A o \in DOMAIN hist.objs : hist.objs[o].reclaimed)
       => \A h \in 1..Len(hist.heap) : hist.heap[h].frees = 1

\* C32: the bytes use_prefix registered are alive and are what they were at
\* the call until the next operation of the session has finished, whatever
\* the caller does with its String in between: the operation reads the
\* bytes that were registered, out of memory that has not been freed.
C32_PrefixAliveAndUnmodified ==
  /\ hist.prefix.registered =>
       /\ ~hist.objs["prefix"].reclaimed
       /\ hist.string = hist.prefix.bytes
  /\ last.op = "operation" => (~last.reclaimed /\ last.window = last.registered)

(***************************************************************************)
(* One call of read, step by step (streaming.c and the variant of          *)
(* vibe_zstd.c).  The reader is its input window (input.size, input.pos),  *)
(* eof and initial_chunk_size; the source is the number of bytes it still  *)
(* holds; the engine is any engine that, called with input in the window,  *)
(* consumes input, produces output into the space it is given, or reports  *)
(* an error.  last holds the position in the call and its locals.          *)
(***************************************************************************)
\* bytes a source holds
MaxSourceLeft == 3

ReadFiles == {"streaming.c", "vibe_zstd.c"}

\* an engine that may return having consumed nothing, produced nothing and
\* reported nothing
ZSTD_decompressStream_outcomes_mayStall(avail, space) ==
  [consumed : 0..avail, produced : 0..space, ret : {0, 1, ZSTD_ERROR}]

\* what a call of ZSTD_decompressStream may do with avail bytes of input and
\* space bytes of output: the bytes consumed, the bytes produced, the value
\* returned
ZSTD_decompressStream_outcomes(avail, space) ==
  {r \in [consumed : 0..avail, produced : 0..space, ret : {0, 1, ZSTD_ERROR}] :
     r.consumed > 0 \/ r.produced > 0 \/ ZSTD_isError(r.ret)}

\* no call of read is running
Idle(file) ==
  [pc |-> "idle", file |-> file, requested_size |-> 0, outBufferSize |-> 0,
   total_read |-> 0, made_progress |-> FALSE, ret |-> "none", full |-> FALSE,
   pulled |-> FALSE]

InitRead ==
  /\ \E file \in ReadFiles, ics \in 0..MaxChunkSize, left \in 0..MaxSourceLeft :
       /\ dstream = [size |-> 0, pos |-> 0, eof |-> FALSE, initial_chunk_size |-> ics]
       /\ source = [left |-> left]
       /\ last = Idle(file)
  /\ hist = [reads |-> 0]
  /\ cstream = ZSTD_createCStream(0)
  /\ sink = << >>
  /\ cctx = ZSTD_createCCtx
  /\ dctx = vibe_zstd_dctx_alloc(0)
  /\ default_initial_capacity = 0
  /\ held = NothingHeld

\* the return of a call: ret is "nil", "str" or "RuntimeError"
ReadReturns(ret, eof) ==
  /\ last' = [last EXCEPT !.pc = "idle", !.ret = ret]
  /\ dstream' = [dstream EXCEPT !.eof = IF last.file = "streaming.c" THEN eof ELSE @]
  /\ UNCHANGED source

\* the code after the loop
ReadTail(eof) ==
  IF last.total_read = 0 THEN ReadReturns("nil", TRUE) ELSE ReadReturns("str", eof)

\* the entry of read up to its loop
ReadBegin ==
  \E size_arg \in {NilInt} \cup 0..MaxReq :
    /\ last.pc = "idle"
    /\ hist' = [hist EXCEPT !.reads = 1]
    /\ UNCHANGED <<source, dstream, cstream, sink, sessionVars>>
    /\ IF last.file = "streaming.c"
       THEN IF dstream.eof
            THEN last' = [Idle(last.file) EXCEPT !.ret = "nil"]
            ELSE LET requested_size == reader_requested_size(dstream, size_arg)
                 IN last' = [Idle(last.file) EXCEPT !.pc = "loop",
                                                    !.requested_size = requested_size,
                                                    !.outBufferSize = requested_size]
       ELSE LET requested_size == IF size_arg = NilInt THEN 0 ELSE size_arg
            IN last' = [Idle(last.file) EXCEPT
                          !.pc = "loop",
                          !.requested_size = requested_size,
                          !.outBufferSize = IF requested_size > 0 THEN requested_size
                                            ELSE ZSTD_DStreamOutSize]

\* the condition of the loop
ReadLoopCondition ==
  IF last.file = "streaming.c" THEN last.total_read < last.requested_size
  ELSE last.requested_size = 0 \/ last.total_read < last.requested_size

\* the head of the loop: its condition and the refill of the window
ReadRefill ==
  /\ last.pc = "loop"
  /\ UNCHANGED <<hist, cstream, sink, sessionVars>>
  /\ IF ~ReadLoopCondition THEN ReadTail(dstream.eof)
     ELSE IF dstream.pos >= dstream.size
     THEN \/ /\ source.left = 0
             \* the source returned nil
             /\ IF last.total_read = 0 /\ ~last.made_progress
                THEN ReadReturns("nil", TRUE)
                ELSE ReadTail(TRUE)
          \/ \E n \in 0..Min(source.left, ZSTD_DStreamInSize) :
               /\ source.left > 0
               /\ source' = [source EXCEPT !.left = @ - n]
               /\ dstream' = [dstream EXCEPT !.size = n, !.pos = 0]
               /\ last' = [last EXCEPT !.pc = "call", !.pulled = TRUE]
     ELSE /\ last' = [last EXCEPT !.pc = "call"]
          /\ UNCHANGED <<source, dstream>>

\* the rest of the loop: the engine call and what follows it
ReadDecompress ==
  /\ last.pc = "call"
  /\ UNCHANGED <<hist, cstream, sink, sessionVars>>
  /\ IF dstream.size = 0 THEN ReadTail(TRUE)
     ELSE LET space_left == last.outBufferSize - last.total_read
          IN \E r \in ZSTD_decompressStream_outcomes(dstream.size - dstream.pos, space_left) :
               LET total_read == last.total_read + r.produced
                   after == [last EXCEPT !.total_read = total_read,
                                         !.made_progress = @ \/ r.produced > 0,
                                         !.full = @ \/ space_left = 0]
               IN IF ZSTD_isError(r.ret)
                  THEN /\ last' = [after EXCEPT !.pc = "idle", !.ret = "RuntimeError"]
                       /\ dstream' = [dstream EXCEPT !.pos = @ + r.consumed]
                       /\ UNCHANGED source
                  ELSE IF \/ (last.file = "streaming.c" \/ last.requested_size > 0)
                             /\ total_read >= last.requested_size
                          \/ r.ret = 0
                  THEN /\ last' = [after EXCEPT !.pc = "idle",
                                                !.ret = IF total_read = 0 THEN "nil" ELSE "str"]
                       /\ dstream' = [dstream EXCEPT
                                        !.pos = @ + r.consumed,
                                        !.eof = IF last.file = "streaming.c"
                                                THEN (@ \/ total_read = 0
                                                        \/ (r.ret = 0 /\ total_read < last.requested_size))
                                                ELSE @]
                       /\ UNCHANGED source
                  ELSE /\ last' = [after EXCEPT !.pc = "loop"]
                       /\ dstream' = [dstream EXCEPT !.pos = @ + r.consumed]
                       /\ UNCHANGED source

NextRead == ReadBegin \/ ReadRefill \/ ReadDecompress

\* a call that has begun keeps running: its loop is code of one thread
SpecRead ==
  /\ InitRead
  /\ [][NextRead]_vars
  /\ WF_vars(ReadRefill)
  /\ WF_vars(ReadDecompress)

\* C35: every call of read, with a size and without, returns or raises
\* after finitely many engine calls and reads of the source, in streaming.c
\* and in the variant of vibe_zstd.c, also when the engine has more to
\* produce than the output buffer holds.
C35_ReadTerminates == (last.pc # "idle") ~> (last.pc = "idle")

\* a call without a size of the variant of vibe_zstd.c has returned after it
\* read the source and called the engine with its output buffer full
C35_Witness ==
  /\ last.pc = "idle"
  /\ last.file = "vibe_zstd.c"
  /\ last.requested_size = 0
  /\ last.full
  /\ last.pulled
  /\ last.total_read = ZSTD_DStreamOutSize
  /\ last.ret = "str"

\* the same for a call with a size of streaming.c
C35_WitnessSized ==
  /\ last.pc = "idle"
  /\ last.file = "streaming.c"
  /\ last.requested_size = MaxReq
  /\ last.total_read = MaxReq
  /\ last.pulled
  /\ last.ret = "str"

====
